---- MODULE Spec2Model ----
(***************************************************************************)
(* Model of the serial protocol engine of TeeGrid's loggerconf.py: the     *)
(* Logger class (line buffer, menu crawl, request scheduler).              *)
(*                                                                         *)
(* The Logger object is a record of its fields; every method is an         *)
(* operator from a Logger record (and the method's inputs) to the Logger   *)
(* record after the call, so that nested calls (read_request ->            *)
(* parse_request_stack -> parse_read_request -> clear_input, write) are    *)
(* composed as in the code.  The variables are the fields.                 *)
(*                                                                         *)
(* A text line is a sequence of fragments (strings); 'x in line' is        *)
(* membership of a fragment, 'line.endswith(x)' looks at the last          *)
(* fragment, '+' is concatenation of sequences.  A chunk of received       *)
(* bytes is a sequence of fragments and newlines.  The lines of the menu   *)
(* crawl are cut into fine fragments (words, digits, ' ', ':', ')'), so    *)
(* that split(), strip(), find() and slices work on them as on characters. *)
(***************************************************************************)
EXTENDS Integers, Sequences, FiniteSets, TLC

\* ------------------------------------------------------------------------
\* Bounds of the model.
\* ------------------------------------------------------------------------
\* number of submissions that are accepted into the queue in one run
MaxSubmit == 3
\* number of fragments and newlines received since the buffer was cleared
MaxInput == 1
\* the same where the device also sends questions and HALT
MaxLines == 2
\* number of idle polls while the crawl waits for the banner
MaxPolls == 2

\* ------------------------------------------------------------------------
\* Python values.
\* ------------------------------------------------------------------------
\* Python's None where a string is expected.
None == "None"
\* request_stop_index = None
NoIndex == -1
\* the line terminator '\n' and the carriage return '\r' inside a chunk
NL == "\\n"
CR == "\\r"

Last(seq) == seq[Len(seq)]
Front(seq) == SubSeq(seq, 1, Len(seq) - 1)

\* ------------------------------------------------------------------------
\* Text: str.lower(), 'in', str.endswith(), str.strip(), str.split('\n'),
\* str.rstrip('\r') on lines made of fragments.
\* ------------------------------------------------------------------------
\* lower() of one fragment
LowerFrag(f) ==
    CASE f = "Select" -> "select"
      [] f = "HALT" -> "halt"
      [] f = "Menu" -> "menu"
      [] f = "Help" -> "help"
      [] f = "Foo" -> "foo"
      [] f = "Bar" -> "bar"
      [] f = "Baz" -> "baz"
      [] f = "V" -> "v"
      [] f = "Logger" -> "logger"
      [] f = "Configuration file \"" -> "configuration file \""
      [] OTHER -> f

\* str.lower()
Lower(line) == [i \in 1..Len(line) |-> LowerFrag(line[i])]

\* 'sub in line': the empty string is in every line
Contains(sub, line) == sub = "" \/ \E i \in 1..Len(line) : line[i] = sub

\* line.endswith(suffix)
EndsWith(line, suffix) == Len(line) > 0 /\ Last(line) = suffix

\* len(line.strip()) == 0
Blank(line) == \A i \in 1..Len(line) : line[i] = " "

\* mutant: no identifier counts as one of a running command
StartsWithNoRun(ident) == FALSE

\* ident[:3] == 'run'
StartsWithRun(ident) == ident \in {"run", "runfirmware1", "runfirmware2"}

\* line.rstrip('\r')
RECURSIVE RStripCR(_)
RStripCR(line) ==
    IF Len(line) > 0 /\ Last(line) = CR THEN RStripCR(Front(line)) ELSE line

\* x.split('\n'): the pieces between the newlines of x, at least one piece
RECURSIVE SplitNL(_)
SplitNL(x) ==
    IF \A i \in 1..Len(x) : x[i] # NL THEN <<x>>
    ELSE LET k == CHOOSE i \in 1..Len(x) :
                      x[i] = NL /\ \A j \in 1..(i - 1) : x[j] # NL
         IN <<SubSeq(x, 1, k - 1)>> \o SplitNL(SubSeq(x, k + 1, Len(x)))

\* x.split(sep): the pieces between the separators of x
RECURSIVE SplitOn(_, _)
SplitOn(x, sep) ==
    IF \A i \in 1..Len(x) : x[i] # sep THEN <<x>>
    ELSE LET k == CHOOSE i \in 1..Len(x) :
                      x[i] = sep /\ \A j \in 1..(i - 1) : x[j] # sep
         IN <<SubSeq(x, 1, k - 1)>> \o SplitOn(SubSeq(x, k + 1, Len(x)), sep)

\* line.split(): the words between runs of blanks
RECURSIVE Words(_)
Words(line) ==
    IF Len(line) = 0 THEN <<>>
    ELSE IF Head(line) = " " THEN Words(Tail(line))
    ELSE LET stops == {i \in 1..Len(line) : line[i] = " "}
             n == IF stops = {} THEN Len(line)
                  ELSE (CHOOSE i \in stops : \A j \in stops : i <= j) - 1
         IN <<SubSeq(line, 1, n)>> \o Words(SubSeq(line, n + 1, Len(line)))

\* ' '.join(words)
RECURSIVE Join(_)
Join(words) ==
    IF Len(words) = 0 THEN <<>>
    ELSE IF Len(words) = 1 THEN words[1]
    ELSE words[1] \o <<" ">> \o Join(Tail(words))

\* line.rstrip(), line.strip()
RECURSIVE RStrip(_)
RStrip(line) ==
    IF Len(line) > 0 /\ Last(line) = " " THEN RStrip(Front(line)) ELSE line
RECURSIVE LStrip(_)
LStrip(line) ==
    IF Len(line) > 0 /\ Head(line) = " " THEN LStrip(Tail(line)) ELSE line
Strip(line) == LStrip(RStrip(line))

\* 'sub in line' for a sub of several fragments
HasSub(sub, line) ==
    \E i \in 0..(Len(line) - Len(sub)) : SubSeq(line, i + 1, i + Len(sub)) = sub

\* line.startswith(prefix)
StartsWith(line, prefix) ==
    Len(prefix) <= Len(line) /\ SubSeq(line, 1, Len(prefix)) = prefix

\* line.find(sub): the first position (from 0) of sub in line, -1 if none
Find(line, sub) ==
    LET found == {i \in 0..(Len(line) - Len(sub)) :
                     SubSeq(line, i + 1, i + Len(sub)) = sub}
    IN IF found = {} THEN -1
       ELSE CHOOSE i \in found : \A j \in found : i <= j

\* line[a:b] with Python's negative and out of range positions
PySlice(line, a, b) ==
    LET n == Len(line)
        a1 == IF a < 0 THEN (IF a + n < 0 THEN 0 ELSE a + n)
              ELSE (IF a > n THEN n ELSE a)
        b1 == IF b < 0 THEN (IF b + n < 0 THEN 0 ELSE b + n)
              ELSE (IF b > n THEN n ELSE b)
    IN SubSeq(line, a1 + 1, b1)

\* the text of a sequence of fragments as one string: a single fragment is
\* itself, several fragments keep their notation as a sequence
Str(line) ==
    IF Len(line) = 0 THEN ""
    ELSE IF Len(line) = 1 THEN line[1]
    ELSE ToString(line)

\* 20*'=' and 20*'-' as one fragment each
EQ20 == "===================="
DASH20 == "--------------------"

\* ------------------------------------------------------------------------
\* State: the fields of Logger (Logger.__init__), and what one call did.
\* ------------------------------------------------------------------------
VARIABLES
    read_func,            \* name of the method the polling tick calls
    read_state,           \* position inside that method
    read_count,           \* idle polls while waiting for the banner
    input,                \* buffered lines
    request_stack,        \* queue of requests
    request_block,        \* sticky block flag
    request_type,         \* kind of the active request or None
    request_target,
    request_ident,
    request_start,
    request_end,
    request_stop,
    request_stop_index,
    ser,                  \* "open" or None
    timer,                \* read_timer is running
    menu,                 \* the menu tree, entries in the order of the dict
    menu_iter,            \* stack of iterators over the items of a menu
    menu_ids,             \* ids of the entries selected on the way down
    menu_key,             \* name of the current entry
    menu_item,            \* the current entry, as its path in the tree
    msg_label,            \* text of the message label (self.msg)
    wire,                 \* bytes waiting in the transport
    dev,                  \* the device at the other end of the transport
    request_uid,          \* number of the active request (history)
    request_given,        \* the active request as it was submitted (history)
    nsub,                 \* number of requests accepted so far (history)
    inflight,             \* requests dequeued and not yet unwound (history)
    stop_line,            \* the line the stop markers matched (history)
    crawl_log,            \* what the crawl wrote and handed over (history)
    fargs,                \* the arguments of a call of a module function
    fret,                 \* what the call returned
    par,                  \* a Parameter object
    out,                  \* what the last call wrote to the device
    calls,                \* read callbacks the last call invoked
    did,                  \* what the last call did, in order
    raised                \* the last call ended in a Python exception

logger_vars == <<read_func, read_state, read_count, input, request_stack,
          request_block, request_type, request_target, request_ident,
          request_start, request_end, request_stop, request_stop_index,
          ser, timer, menu, menu_iter, menu_ids, menu_key, menu_item,
          msg_label, wire, dev, request_uid, request_given, nsub, inflight,
          stop_line, crawl_log, out, calls, did, raised>>

vars == <<logger_vars, fargs, fret, par>>

\* the Logger object as a record
Self ==
    [read_func |-> read_func, read_state |-> read_state,
     read_count |-> read_count, input |-> input,
     request_stack |-> request_stack, request_block |-> request_block,
     request_type |-> request_type, request_target |-> request_target,
     request_ident |-> request_ident, request_start |-> request_start,
     request_end |-> request_end, request_stop |-> request_stop,
     request_stop_index |-> request_stop_index,
     ser |-> ser, timer |-> timer,
     menu |-> menu, menu_iter |-> menu_iter, menu_ids |-> menu_ids,
     menu_key |-> menu_key, menu_item |-> menu_item, msg_label |-> msg_label,
     wire |-> wire, dev |-> dev,
     request_uid |-> request_uid, request_given |-> request_given,
     nsub |-> nsub, inflight |-> inflight, stop_line |-> stop_line,
     crawl_log |-> crawl_log,
     out |-> <<>>, calls |-> <<>>, did |-> <<>>, raised |-> FALSE,
     fault |-> "none"]

\* the Logger at the start of a call in which the first transport operation
\* of kind f raises an OSError or SerialException: "open" (Serial()),
\* "poll" (in_waiting, read), "write" (write, flush) or "reset"
\* (reset_input_buffer)
WithFault(f) == [Self EXCEPT !.fault = f]

\* the fields after a call
LoggerBecomes(s) ==
    /\ read_func' = s.read_func
    /\ read_state' = s.read_state
    /\ read_count' = s.read_count
    /\ input' = s.input
    /\ request_stack' = s.request_stack
    /\ request_block' = s.request_block
    /\ request_type' = s.request_type
    /\ request_target' = s.request_target
    /\ request_ident' = s.request_ident
    /\ request_start' = s.request_start
    /\ request_end' = s.request_end
    /\ request_stop' = s.request_stop
    /\ request_stop_index' = s.request_stop_index
    /\ ser' = s.ser
    /\ timer' = s.timer
    /\ menu' = s.menu
    /\ menu_iter' = s.menu_iter
    /\ menu_ids' = s.menu_ids
    /\ menu_key' = s.menu_key
    /\ menu_item' = s.menu_item
    /\ msg_label' = s.msg_label
    /\ wire' = s.wire
    /\ dev' = s.dev
    /\ request_uid' = s.request_uid
    /\ request_given' = s.request_given
    /\ nsub' = s.nsub
    /\ inflight' = s.inflight
    /\ stop_line' = s.stop_line
    /\ crawl_log' = s.crawl_log
    /\ out' = s.out
    /\ calls' = s.calls
    /\ did' = s.did
    /\ raised' = s.raised

\* a call of a method of the Logger
Becomes(s) == LoggerBecomes(s) /\ UNCHANGED <<fargs, fret, par>>

\* the fields of a freshly set up Logger
LoggerStartsAs(s) ==
    /\ read_func = s.read_func
    /\ read_state = s.read_state
    /\ read_count = s.read_count
    /\ input = s.input
    /\ request_stack = s.request_stack
    /\ request_block = s.request_block
    /\ request_type = s.request_type
    /\ request_target = s.request_target
    /\ request_ident = s.request_ident
    /\ request_start = s.request_start
    /\ request_end = s.request_end
    /\ request_stop = s.request_stop
    /\ request_stop_index = s.request_stop_index
    /\ ser = s.ser
    /\ timer = s.timer
    /\ menu = s.menu
    /\ menu_iter = s.menu_iter
    /\ menu_ids = s.menu_ids
    /\ menu_key = s.menu_key
    /\ menu_item = s.menu_item
    /\ msg_label = s.msg_label
    /\ wire = s.wire
    /\ dev = s.dev
    /\ request_uid = s.request_uid
    /\ request_given = s.request_given
    /\ nsub = s.nsub
    /\ inflight = s.inflight
    /\ stop_line = s.stop_line
    /\ crawl_log = s.crawl_log
    /\ out = s.out
    /\ calls = s.calls
    /\ did = s.did
    /\ raised = s.raised

\* no arguments, no return value, no Parameter
Nothing == [nothing |-> TRUE]

\* a Logger, no function called and no Parameter made
StartsAs(s) ==
    LoggerStartsAs(s) /\ fargs = Nothing /\ fret = Nothing /\ par = Nothing

\* no request: the value of the history of a request before the first one
NoRequest ==
    [target |-> None, ident |-> None, start |-> <<>>, stop |-> <<>>,
     act |-> None]

\* a transport whose other end is not modelled: the bytes a tick finds are
\* chosen freely
NoDevice == [mode |-> "absent", path |-> <<>>, outbox |-> <<>>]

\* Logger.__init__ followed by activate(): the crawl is about to start
Activated ==
    [read_func |-> "parse_logo", read_state |-> 0, read_count |-> 0,
     input |-> <<>>, request_stack |-> <<>>, request_block |-> FALSE,
     request_type |-> None, request_target |-> None,
     request_ident |-> None, request_start |-> <<>>,
     request_end |-> FALSE, request_stop |-> <<>>,
     request_stop_index |-> NoIndex,
     ser |-> "open", timer |-> TRUE,
     menu |-> <<>>, menu_iter |-> <<>>, menu_ids |-> <<>>,
     menu_key |-> <<>>, menu_item |-> <<>>,
     msg_label |-> <<"Reading configuration ...">>,
     wire |-> <<>>, dev |-> NoDevice,
     request_uid |-> 0, request_given |-> NoRequest,
     nsub |-> 0, inflight |-> {}, stop_line |-> <<>>,
     crawl_log |-> <<>>,
     out |-> <<>>, calls |-> <<>>, did |-> <<>>, raised |-> FALSE,
     fault |-> "none"]

\* ------------------------------------------------------------------------
\* Transport.
\* ------------------------------------------------------------------------
\* what the device prints after power-up or 'reboot': the banner that
\* parse_logo waits for and the notice that parse_configfile looks for
BootBlock ==
    <<EQ20, NL, "Logger", " by ", "jan", NL, DASH20, NL,
      "Configuration file \"", "logger.cfg", "\"", " ", "not found", NL>>

\* the menu blocks in the format parse_menu reads: the main menu with a
\* submenu and a parameter, and the submenu with a parameter
MainBlock ==
    <<"Menu", ":", NL,
      "1", ")", " ", "Foo", " ", "...", NL,
      "2", ")", " ", "Bar", ":", " ", "5", " ", "V", NL,
      "Select", ":", " ">>
FooBlock ==
    <<"Foo", ":", NL,
      "1", ")", " ", "Baz", ":", " ", "on", NL,
      "Select", ":", " ">>

\* the prompts for a new value in the format parse_submenus reads
BarPrompt ==
    <<"Bar", ":", " ", "5", " ", "V", NL,
      "new value", " ", "(", "float", ")", ":", " ">>
BazPrompt ==
    <<"Baz", ":", " ", "on", NL,
      "-", " ", "on", NL, "-", " ", "off", NL,
      "new value", " ", "(", "enum", ")", ":", " ">>

\* what the device prints before it halts
HaltBlock == <<"fatal", NL, "HALT", NL>>

\* the device after power-up
Booted == [mode |-> "menu", path |-> <<>>, outbox |-> BootBlock]

\* the device gets a line of text: it answers a selection with the block
\* of the selected entry, as the crawl and the scheduler expect it
DevReact(d, text) ==
    LET say(block) == d.outbox \o block
    IN CASE d.mode \in {"absent", "halted"} -> d
         [] d.mode = "value" -> [d EXCEPT !.mode = "menu"]
         [] d.mode = "menu" /\ text = "reboot" ->
              [d EXCEPT !.path = <<>>, !.outbox = say(BootBlock)]
         [] d.mode = "menu" /\ text = "print" ->
              [d EXCEPT !.outbox =
                   say(IF d.path = <<>> THEN MainBlock ELSE FooBlock)]
         [] d.mode = "menu" /\ text = "q" ->
              [d EXCEPT !.path = IF Len(@) > 0 THEN Front(@) ELSE @]
         [] d.mode = "menu" /\ text = "h" -> [d EXCEPT !.path = <<>>]
         [] d.mode = "menu" /\ text = "1" /\ d.path = <<>> ->
              [d EXCEPT !.path = <<"1">>, !.outbox = say(FooBlock)]
         [] d.mode = "menu" /\ text = "2" /\ d.path = <<>> ->
              [d EXCEPT !.mode = "value", !.outbox = say(BarPrompt)]
         [] d.mode = "menu" /\ text = "1" /\ d.path = <<"1">> ->
              [d EXCEPT !.mode = "value", !.outbox = say(BazPrompt)]
         [] OTHER -> d

\* the methods of the crawl: AwaitBanner, AwaitConfigNotice, ConfigureEcho,
\* RequestMainMenu and ParseMainMenu, IterateSubmenus
CrawlFuncs ==
    {"parse_logo", "parse_configfile", "configure_menu", "parse_mainmenu",
     "parse_submenus"}

\* mutant: stop() leaves the polling timer running
stop_keeps_timer(s) ==
    [s EXCEPT !.ser = None, !.did = Append(@, "disconnected")]

\* Logger.stop ('stop' is an argument of read_request): the timer is
\* stopped, the port closed and sigLoggerDisconnected emitted
stop_logger(s) ==
    [s EXCEPT !.timer = FALSE, !.ser = None,
              !.did = Append(@, "disconnected")]

\* Logger.write
write(s, text) ==
    IF s.ser # None
    THEN IF s.fault = "write" THEN stop_logger(s)
         ELSE [s EXCEPT !.out = Append(@, [tok |-> text,
                                           uid |-> s.request_uid,
                                           inflight |-> s.inflight]),
                        !.crawl_log = IF s.read_func \in CrawlFuncs
                                      THEN Append(@, text) ELSE @,
                        !.dev = DevReact(@, text)]
    ELSE s

\* Logger.clear_input: reset_input_buffer drops the bytes that wait
clear_input(s) ==
    IF s.ser # None
    THEN IF s.fault = "reset" THEN [stop_logger(s) EXCEPT !.input = <<>>]
         ELSE [s EXCEPT !.wire = <<>>, !.input = <<>>]
    ELSE [s EXCEPT !.input = <<>>]

\* mutant: the reply is 'y' whatever the user decides
ask_accepts(s, answer) ==
    write(clear_input([s EXCEPT !.did = Append(@, "ask")]), "y")

\* Logger.ask: a modal question; answer is the button the user presses
ask(s, answer) ==
    LET s1 == clear_input([s EXCEPT !.did = Append(@, "ask")])
    IN IF answer = "yes" THEN write(s1, "y") ELSE write(s1, "n")

\* ------------------------------------------------------------------------
\* Request scheduler.
\* ------------------------------------------------------------------------
\* mutant: the check for a queued duplicate is missing
IsQueuedNever(stack, target, ident, act) == FALSE

\* 'for req in self.request_stack: if req[0] == target and ...: return'
IsQueued(stack, target, ident, act) ==
    \E i \in 1..Len(stack) :
        /\ stack[i].target = target
        /\ stack[i].ident = ident
        /\ stack[i].act = act

\* mutant: a submission dispatches also while a request is active
IsIdleAlways(s) == TRUE

\* 'if self.read_func == self.parse_request_stack' of the submissions
IsIdle(s) == s.read_func = "parse_request_stack"

\* mutant: pop() instead of pop(0)
PopIndexLast(stack) == Len(stack)

\* 'request = self.request_stack.pop(0)': the position that is taken
PopIndex(stack) == 1

\* mutant: every matched stop marker counts as success
SuccessAnyMatch(s) == s.request_stop_index # NoIndex

\* 'self.request_stop_index == 0', the success argument of a read callback
Success(s) == s.request_stop_index = 0

\* mutant: the target's read is called twice
callback_repeats(s, final) ==
    LET call == [target |-> s.request_target,
                 ident |-> s.request_ident,
                 lines |-> s.input,
                 success |-> s.request_stop_index = 0,
                 final |-> final,
                 uid |-> s.request_uid]
    IN [s EXCEPT !.calls = @ \o <<call, call>>]

\* the target's read(ident, stream, success) is called
callback(s, final) ==
    [s EXCEPT !.calls = Append(@, [target |-> s.request_target,
                                   ident |-> s.request_ident,
                                   lines |-> s.input,
                                   success |-> Success(s),
                                   final |-> final,
                                   uid |-> s.request_uid])]

\* the for loop over reversed(range(len(self.request_stop))): the index of
\* the first marker found in last_line, NoIndex when there is none
MatchIndex(stop, last_line) ==
    LET found == {k \in 1..Len(stop) : Contains(stop[k], last_line)}
    IN IF found = {} THEN NoIndex
       ELSE (CHOOSE k \in found : \A j \in found : j <= k) - 1

\* last_line of parse_read_request, read_state 1
LastLine(inp) ==
    LET l1 == Lower(inp[Len(inp)])
    IN IF Blank(l1) /\ Len(inp) > 1 THEN Lower(inp[Len(inp) - 1]) ELSE l1


\* mutant: the sentinel is not removed
StripStayKeeps(start) == start

\* 'if start[-1] == 'STAY': start.pop()': the start tokens that are queued
StripStay(start) ==
    IF Last(start) = "STAY" THEN Front(start) ELSE start

\* mutant: the sticky block flag is not looked at
BlockedNever(s, stay) == FALSE

\* the local variable block of read_request: the request is not queued
Blocked(s, stay) == IF stay THEN FALSE ELSE s.request_block

\* mutant: the last step returns to root also for a sticky request
unwind_always(s) ==
    LET s1 == write(clear_input(s), "h")
    IN [s1 EXCEPT !.request_type = None,
                  !.read_func = "parse_request_stack",
                  !.inflight = @ \ {s.request_uid},
                  !.did = Append(@, "unwind")]

\* mutant: the last step does not return to root
unwind_never(s) ==
    LET s1 == clear_input(s)
    IN [s1 EXCEPT !.request_type = None,
                  !.read_func = "parse_request_stack",
                  !.inflight = @ \ {s.request_uid},
                  !.did = Append(@, "unwind")]

\* mutant: the last step of a request releases the block
unwind_releases(s) ==
    LET s1 == clear_input(s)
        s2 == IF s1.request_end THEN write(s1, "h") ELSE s1
    IN [s2 EXCEPT !.request_type = None,
                  !.read_func = "parse_request_stack",
                  !.request_block = FALSE,
                  !.inflight = @ \ {s.request_uid},
                  !.did = Append(@, "unwind")]

\* the last step of a request (read_state 3 of parse_read_request,
\* read_state 2 of parse_write_request)
unwind(s) ==
    LET s1 == clear_input(s)
        s2 == IF s1.request_end THEN write(s1, "h") ELSE s1
    IN [s2 EXCEPT !.request_type = None,
                  !.read_func = "parse_request_stack",
                  !.inflight = @ \ {s.request_uid},
                  !.did = Append(@, "unwind")]

\* Logger.read_request without its last two lines (the call of
\* parse_request_stack): this is all a submission does while another
\* state machine owns control
enqueue_read(s, target, ident, start, stop, act) ==
    IF Len(start) = 0 THEN [s EXCEPT !.did = Append(@, "empty")]
    ELSE IF IsQueued(s.request_stack, target, ident, act)
    THEN [s EXCEPT !.did = Append(@, "duplicate")]
    ELSE LET stay == Last(start) = "STAY"
             start1 == StripStay(start)
             block == Blocked(s, stay)
             s1 == IF stay THEN [s EXCEPT !.request_block = TRUE] ELSE s
         IN IF ~block
            THEN [s1 EXCEPT !.request_stack =
                        Append(@, [target |-> target, ident |-> ident,
                                   start |-> start1, end |-> ~stay,
                                   stop |-> stop, act |-> act,
                                   uid |-> s.nsub + 1,
                                   given |-> [target |-> target,
                                              ident |-> ident,
                                              start |-> start,
                                              stop |-> stop,
                                              act |-> act]]),
                            !.nsub = @ + 1,
                            !.did = Append(@, "queued")]
            ELSE [s1 EXCEPT !.did = Append(@, "blocked")]

\* Logger.write_request without its last two lines
enqueue_write(s, msg, start) ==
    IF Len(start) = 0 THEN [s EXCEPT !.did = Append(@, "empty")]
    ELSE IF ~s.request_block
         THEN [s EXCEPT !.request_stack =
                     Append(@, [target |-> msg, ident |-> None,
                                start |-> start, end |-> TRUE,
                                stop |-> <<None>>, act |-> "write",
                                uid |-> s.nsub + 1,
                                given |-> [target |-> msg, ident |-> None,
                                           start |-> start,
                                           stop |-> <<None>>,
                                           act |-> "write"]]),
                        !.nsub = @ + 1,
                        !.did = Append(@, "queued")]
         ELSE [s EXCEPT !.did = Append(@, "blocked")]

\* a submission made from inside a read callback: sub is a sequence of
\* submissions; read_func is parse_read_request there, so nothing is
\* dispatched
RECURSIVE submit_all(_, _)
submit_all(s, subs) ==
    IF Len(subs) = 0 THEN s
    ELSE LET c == Head(subs)
             s1 == IF c.act = "write"
                   THEN enqueue_write(s, c.target, c.start)
                   ELSE enqueue_read(s, c.target, c.ident, c.start,
                                     c.stop, c.act)
         IN submit_all(s1, Tail(subs))

\* mutant: InnerWait waits for "select" before every token
parse_read_request_select(s, answer, subs) ==
    CASE s.read_state = 0 ->
           LET s1 == clear_input(s)
           IN IF Len(s1.request_start) = 0
              THEN [s1 EXCEPT !.raised = TRUE]
              ELSE LET s2 == write(s1, Head(s1.request_start))
                       rest == Tail(s1.request_start)
                   IN IF Len(rest) > 0
                      THEN [s2 EXCEPT !.request_start = rest,
                                      !.read_state = 4]
                      ELSE [s2 EXCEPT !.request_start = <<>>,
                                      !.read_state = 1]
      [] s.read_state = 1 ->
           LET s1 ==
                 IF /\ s.request_type = "read"
                    /\ Len(s.input) > 0
                    /\ EndsWith(Lower(Last(s.input)), " [y/n] ")
                 THEN [ask(s, answer) EXCEPT !.read_state = 1]
                 ELSE IF Len(s.request_stop) = 0
                 THEN [s EXCEPT !.read_state = 2]
                 ELSE IF Len(s.input) > 0
                 THEN LET k == MatchIndex(s.request_stop, LastLine(s.input))
                      IN IF k # NoIndex
                         THEN [s EXCEPT !.request_stop = <<>>,
                                        !.request_stop_index = k,
                                        !.stop_line = LastLine(s.input),
                                        !.read_state = 2]
                         ELSE s
                 ELSE s
           IN IF /\ StartsWithRun(s1.request_ident)
                 /\ s1.request_target # None
                 /\ s1.request_stop_index # 0
              THEN submit_all(callback(s1, FALSE), subs)
              ELSE s1
      [] s.read_state = 2 ->
           LET s1 == IF s.request_target # None
                     THEN [submit_all(callback(s, TRUE), subs)
                              EXCEPT !.request_target = None]
                     ELSE s
               s2 == IF s1.request_type = "transmit"
                        /\ s1.request_stop_index = 1
                     THEN write(s1, "keepthevalue")
                     ELSE s1
           IN [s2 EXCEPT !.read_state = 3, !.did = Append(@, "deliver")]
      [] s.read_state = 3 ->
           unwind(s)
      [] s.read_state = 4 ->
           LET stop_str == "select"
           IN IF Len(s.input) > 0
                 /\ Contains(stop_str, Lower(Last(s.input)))
              THEN [s EXCEPT !.read_state = 0]
              ELSE s
      [] OTHER -> s

\* Logger.parse_read_request; answer is the user's reply if a confirmation
\* is asked for, subs are the submissions the read callback makes
parse_read_request(s, answer, subs) ==
    CASE s.read_state = 0 ->
           LET s1 == clear_input(s)
           IN IF Len(s1.request_start) = 0
              THEN [s1 EXCEPT !.raised = TRUE]
              ELSE LET s2 == write(s1, Head(s1.request_start))
                       rest == Tail(s1.request_start)
                   IN IF Len(rest) > 0
                      THEN [s2 EXCEPT !.request_start = rest,
                                      !.read_state = 4]
                      ELSE [s2 EXCEPT !.request_start = <<>>,
                                      !.read_state = 1]
      [] s.read_state = 1 ->
           LET s1 ==
                 IF /\ s.request_type = "read"
                    /\ Len(s.input) > 0
                    /\ EndsWith(Lower(Last(s.input)), " [y/n] ")
                 THEN [ask(s, answer) EXCEPT !.read_state = 1]
                 ELSE IF Len(s.request_stop) = 0
                 THEN [s EXCEPT !.read_state = 2]
                 ELSE IF Len(s.input) > 0
                 THEN LET k == MatchIndex(s.request_stop, LastLine(s.input))
                      IN IF k # NoIndex
                         THEN [s EXCEPT !.request_stop = <<>>,
                                        !.request_stop_index = k,
                                        !.stop_line = LastLine(s.input),
                                        !.read_state = 2]
                         ELSE s
                 ELSE s
           IN IF /\ StartsWithRun(s1.request_ident)
                 /\ s1.request_target # None
                 /\ s1.request_stop_index # 0
              THEN submit_all(callback(s1, FALSE), subs)
              ELSE s1
      [] s.read_state = 2 ->
           LET s1 == IF s.request_target # None
                     THEN [submit_all(callback(s, TRUE), subs)
                              EXCEPT !.request_target = None]
                     ELSE s
               s2 == IF s1.request_type = "transmit"
                        /\ s1.request_stop_index = 1
                     THEN write(s1, "keepthevalue")
                     ELSE s1
           IN [s2 EXCEPT !.read_state = 3, !.did = Append(@, "deliver")]
      [] s.read_state = 3 ->
           unwind(s)
      [] s.read_state = 4 ->
           LET stop_str == IF s.request_type = "transmit"
                              /\ Len(s.request_start) = 1
                           THEN "new value" ELSE "select"
           IN IF Len(s.input) > 0
                 /\ Contains(stop_str, Lower(Last(s.input)))
              THEN [s EXCEPT !.read_state = 0]
              ELSE s
      [] OTHER -> s

\* mutant: a start token is written only after the device has answered
parse_write_request_waits(s) ==
    CASE s.read_state = 0 /\ Len(s.input) = 0 /\ Len(s.out) = 0 -> s
      [] s.read_state = 0 ->
           LET s1 == clear_input(s)
           IN IF Len(s1.request_start) > 0
              THEN [write(s1, Head(s1.request_start))
                       EXCEPT !.request_start = Tail(s1.request_start)]
              ELSE [s1 EXCEPT !.request_start = <<>>, !.read_state = 1]
      [] s.read_state = 1 ->
           LET s1 == write(clear_input(s), s.request_target)
           IN [s1 EXCEPT !.request_target = None, !.read_state = 2]
      [] s.read_state = 2 ->
           unwind(s)
      [] OTHER -> s

\* Logger.parse_write_request
parse_write_request(s) ==
    CASE s.read_state = 0 ->
           LET s1 == clear_input(s)
           IN IF Len(s1.request_start) > 0
              THEN [write(s1, Head(s1.request_start))
                       EXCEPT !.request_start = Tail(s1.request_start)]
              ELSE [s1 EXCEPT !.request_start = <<>>, !.read_state = 1]
      [] s.read_state = 1 ->
           LET s1 == write(clear_input(s), s.request_target)
           IN [s1 EXCEPT !.request_target = None, !.read_state = 2]
      [] s.read_state = 2 ->
           unwind(s)
      [] OTHER -> s

\* Logger.parse_request_stack
parse_request_stack(s) ==
    IF Len(s.request_stack) = 0
    THEN IF s.request_type = None
         THEN [s EXCEPT !.request_block = FALSE]
         ELSE s
    ELSE LET s1 == clear_input(s)
             i == PopIndex(s1.request_stack)
             request == s1.request_stack[i]
             s2 == [s1 EXCEPT
                      !.request_stack =
                          SubSeq(@, 1, i - 1) \o SubSeq(@, i + 1, Len(@)),
                      !.did = Append(@, "dequeue"),
                      !.inflight = @ \cup {request.uid},
                      !.request_given = request.given,
                      !.request_target = request.target,
                      !.request_ident = request.ident,
                      !.request_start = request.start,
                      !.request_end = request.end,
                      !.request_stop = request.stop,
                      !.request_stop_index = NoIndex,
                      !.request_type = request.act,
                      !.request_uid = request.uid,
                      !.read_state = 0,
                      !.read_func =
                          IF request.act \in {"read", "transmit"}
                          THEN "parse_read_request"
                          ELSE "parse_write_request"]
         IN IF s2.read_func = "parse_read_request"
            THEN parse_read_request(s2, "no", <<>>)
            ELSE parse_write_request(s2)

\* Logger.read_request
read_request(s, target, ident, start, stop, act) ==
    LET s1 == enqueue_read(s, target, ident, start, stop, act)
    IN IF Len(start) = 0 \/ IsQueued(s.request_stack, target, ident, act)
       THEN s1
       ELSE IF IsIdle(s1) THEN parse_request_stack(s1) ELSE s1

\* Logger.transmit_request
transmit_request(s, target, ident, start) ==
    read_request(s, target, ident, start, <<"select", "new value">>,
                 "transmit")

\* mutant: a write request without start tokens is accepted
write_request_accepts(s, msg, start) ==
    LET s1 == IF ~s.request_block
              THEN [s EXCEPT !.request_stack =
                        Append(@, [target |-> msg, ident |-> None,
                                   start |-> start, end |-> TRUE,
                                   stop |-> <<None>>, act |-> "write",
                                   uid |-> s.nsub + 1,
                                   given |-> [target |-> msg, ident |-> None,
                                              start |-> start,
                                              stop |-> <<None>>,
                                              act |-> "write"]]),
                              !.nsub = @ + 1,
                              !.did = Append(@, "queued")]
              ELSE [s EXCEPT !.did = Append(@, "blocked")]
    IN IF IsIdle(s1) THEN parse_request_stack(s1) ELSE s1

\* Logger.write_request
write_request(s, msg, start) ==
    LET s1 == enqueue_write(s, msg, start)
    IN IF Len(start) = 0 THEN s1
       ELSE IF IsIdle(s1) THEN parse_request_stack(s1) ELSE s1

\* ------------------------------------------------------------------------
\* Menu crawl.
\* ------------------------------------------------------------------------
\* mutant: the crawler asks for a reboot one poll earlier
RebootPollsFewer == 100 - 1

\* 'if self.read_count > 100' of parse_logo
RebootPolls == 100

\* Logger.parse_halt; k is the position (from 0) of the line with HALT
RECURSIVE HaltMessageIndex(_, _)
HaltMessageIndex(inp, k) ==
    IF k >= 0 /\ Len(inp[k + 1]) = 0 THEN HaltMessageIndex(inp, k - 1)
    ELSE k
parse_halt(s, k) ==
    LET k1 == HaltMessageIndex(s.input, k - 1)
        line == IF k1 < 0 THEN s.input[Len(s.input) + 1 + k1]
                ELSE s.input[k1 + 1]
    IN [s EXCEPT !.msg_label = <<"Logger halted", NL>> \o line,
                 !.read_func = "parse_idle",
                 !.did = Append(@, "halt")]

\* the position (from 1) of the first line with HALT, 0 if there is none
FirstHalt(inp) ==
    LET halts == {k \in 1..Len(inp) : Contains("HALT", inp[k])}
    IN IF halts = {} THEN 0
       ELSE CHOOSE k \in halts : \A j \in halts : k <= j

\* Logger.parse_logo (the texts it hands to the logo and software-info
\* widgets are not part of the model)
parse_logo(s) ==
    LET inp == s.input
        h == FirstHalt(inp)
        rule(k, r) == Len(inp[k]) > 0 /\ inp[k][1] = r
        starts == {k \in 1..Len(inp) : rule(k, EQ20)}
        started(k) == \E j \in starts : j < k
        ends == {k \in 1..Len(inp) :
                    /\ ~rule(k, EQ20)
                    /\ started(k)
                    /\ ~Contains(" by ", inp[k])
                    /\ rule(k, DASH20)}
    IN IF h > 0 THEN parse_halt(s, h - 1)
       ELSE IF starts # {} /\ ends # {}
       THEN LET title_end == CHOOSE k \in ends : \A j \in ends : j <= k
            IN [s EXCEPT !.input = SubSeq(inp, title_end + 1, Len(inp)),
                         !.read_func = "parse_configfile"]
       ELSE IF s.read_count > RebootPolls
       THEN write([s EXCEPT !.read_count = 0], "reboot")
       ELSE [s EXCEPT !.read_count = @ + 1]

\* Logger.parse_configfile (the name and state of the configuration file
\* it hands to the widgets are not part of the model)
parse_configfile(s) ==
    LET inp == s.input
        isfile(k) == Contains("configuration file \"", Lower(inp[k]))
        nocard(k) == Contains("! error: no sd card present", Lower(inp[k]))
        hits == {k \in 1..Len(inp) : isfile(k) \/ nocard(k)}
        in2 == IF hits = {} THEN inp
               ELSE LET k == CHOOSE i \in hits : \A j \in hits : i <= j
                        in1 == SubSeq(inp, k + 1, Len(inp))
                        blanks == {i \in 1..Len(in1) : Blank(in1[i])}
                    IN IF isfile(k) /\ blanks # {}
                       THEN SubSeq(in1,
                                   CHOOSE i \in blanks :
                                       \A j \in blanks : i <= j,
                                   Len(in1))
                       ELSE in1
    IN [s EXCEPT !.input = in2, !.read_func = "configure_menu"]

\* mutant: the echo is switched off before the details are switched on
configure_menu_swapped(s) ==
    CASE s.read_state = 0 ->
           [write(s, "echo off") EXCEPT !.read_state = @ + 1]
      [] s.read_state = 1 ->
           [write(s, "detailed on") EXCEPT !.read_state = 0,
                                           !.read_func = "parse_mainmenu"]
      [] OTHER -> s

\* Logger.configure_menu
configure_menu(s) ==
    CASE s.read_state = 0 ->
           [write(s, "detailed on") EXCEPT !.read_state = @ + 1]
      [] s.read_state = 1 ->
           [write(s, "echo off") EXCEPT !.read_state = 0,
                                        !.read_func = "parse_mainmenu"]
      [] OTHER -> s

\* an entry of a menu: (num, 'menu', {}), [num, 'param', value] or
\* (num, 'action') under its name; resolved tells that the value of a
\* parameter entry has been replaced by the Parameter object param
NoParameter ==
    [ids |-> <<>>, name |-> <<>>, value |-> <<>>, spec |-> <<>>,
     selection |-> <<>>]
Entry(name, num, kind, value) ==
    [name |-> name, num |-> num, kind |-> kind, sub |-> <<>>,
     value |-> value, resolved |-> FALSE, param |-> NoParameter]

\* 'menu[name] = ...': a name that is in the dict keeps its place
DictPut(d, e) ==
    IF \E i \in 1..Len(d) : d[i].name = e.name
    THEN [i \in 1..Len(d) |-> IF d[i].name = e.name THEN e ELSE d[i]]
    ELSE Append(d, e)

\* dict.update(other)
RECURSIVE DictUpdate(_, _)
DictUpdate(d, other) ==
    IF Len(other) = 0 THEN d
    ELSE DictUpdate(DictPut(d, Head(other)), Tail(other))

\* mutant: the colon is looked for before the trailing '...'
ParseEntryColonFirst(l) ==
    LET x == Words(l)
    IN IF Len(x) = 0 THEN [ok |-> FALSE, e |-> Entry(<<>>, "", "action", <<>>)]
       ELSE LET num == Str(Front(x[1]))
                l1 == Join(Tail(x))
            IN IF Contains(":", l1)
               THEN LET y == SplitOn(l1, ":")
                    IN [ok |-> TRUE,
                        e |-> Entry(Strip(y[1]), num, "param", Strip(y[2]))]
               ELSE IF Last(x) = <<"...">>
               THEN [ok |-> TRUE,
                     e |-> Entry(Join(SubSeq(x, 2, Len(x) - 1)), num,
                                 "menu", <<>>)]
               ELSE [ok |-> TRUE, e |-> Entry(l1, num, "action", <<>>)]

\* the body of the for loop of parse_menu for one line l; ok is false
\* where x[0] raises an IndexError
ParseEntry(l) ==
    LET x == Words(l)
    IN IF Len(x) = 0 THEN [ok |-> FALSE, e |-> Entry(<<>>, "", "action", <<>>)]
       ELSE LET num == Str(Front(x[1]))
            IN IF Last(x) = <<"...">>
               THEN [ok |-> TRUE,
                     e |-> Entry(Join(SubSeq(x, 2, Len(x) - 1)), num,
                                 "menu", <<>>)]
               ELSE LET l1 == Join(Tail(x))
                    IN IF Contains(":", l1)
                       THEN LET y == SplitOn(l1, ":")
                            IN [ok |-> TRUE,
                                e |-> Entry(Strip(y[1]), num, "param",
                                            Strip(y[2]))]
                       ELSE [ok |-> TRUE,
                             e |-> Entry(l1, num, "action", <<>>)]

\* the for loop of parse_menu over the lines between header and footer
RECURSIVE ParseEntries(_, _)
ParseEntries(lines, d) ==
    IF Len(lines) = 0 THEN [ok |-> TRUE, menu |-> d]
    ELSE LET r == ParseEntry(Head(lines))
         IN IF r.ok THEN ParseEntries(Tail(lines), DictPut(d, r.e))
            ELSE [ok |-> FALSE, menu |-> d]

\* Logger.parse_menu: the Logger after the call and the value returned;
\* none tells that the value is None
parse_menu(s, title_str) ==
    LET inp == s.input
        h == FirstHalt(inp)
        title(k) == HasSub(title_str \o <<":">>, inp[k])
        starts == {k \in 1..Len(inp) : title(k)}
        ends == {k \in 1..Len(inp) :
                    /\ ~title(k)
                    /\ \E j \in starts : j < k
                    /\ Contains("Select", inp[k])}
    IN IF h > 0
       THEN [s |-> parse_halt(s, h - 1), menu |-> <<>>, none |-> TRUE]
       ELSE IF starts = {} \/ ends = {}
       THEN [s |-> s, menu |-> <<>>, none |-> FALSE]
       ELSE LET menu_start == CHOOSE k \in starts : \A j \in starts : j <= k
                menu_end == CHOOSE k \in ends : \A j \in ends : j <= k
                r == ParseEntries(SubSeq(inp, menu_start + 1, menu_end - 1),
                                  <<>>)
            IN IF r.ok
               THEN [s |-> [s EXCEPT !.input = <<>>], menu |-> r.menu,
                     none |-> FALSE]
               ELSE [s |-> [s EXCEPT !.raised = TRUE], menu |-> <<>>,
                     none |-> FALSE]

\* Logger.parse_mainmenu; len(None) raises a TypeError after parse_menu
\* has returned None
parse_mainmenu(s) ==
    CASE s.read_state = 0 ->
           [write(clear_input(s), "print") EXCEPT !.read_state = @ + 1]
      [] s.read_state = 1 ->
           LET r == parse_menu(s, <<"Menu">>)
               s1 == [r.s EXCEPT !.menu = r.menu]
           IN IF r.none THEN [s1 EXCEPT !.raised = TRUE]
              ELSE IF r.s.raised THEN r.s
              ELSE IF Len(r.menu) > 0
              THEN [s1 EXCEPT !.menu_iter = <<[path |-> <<>>, pos |-> 0]>>,
                              !.menu_ids = <<None>>,
                              !.read_state = 0,
                              !.read_func = "parse_submenus"]
              ELSE s1
      [] OTHER -> s

\* the items of the menu at the end of a path of positions
RECURSIVE ItemsAt(_, _)
ItemsAt(m, path) ==
    IF Len(path) = 0 THEN m ELSE ItemsAt(m[Head(path)].sub, Tail(path))

\* the entry at a path
EntryAt(m, path) == ItemsAt(m, Front(path))[Last(path)]

\* the tree with the entry at a path replaced
RECURSIVE PutEntry(_, _, _)
PutEntry(m, path, e) ==
    IF Len(path) = 1 THEN [m EXCEPT ![path[1]] = e]
    ELSE [m EXCEPT ![Head(path)].sub = PutEntry(@, Tail(path), e)]

\* mutant: the entry Help stays in the tree
PopHelpKeeps(m) == m

\* 'if 'Help' in self.menu: self.menu.pop('Help')'
PopHelp(m) ==
    LET keep == {i \in 1..Len(m) : m[i].name # <<"Help">>}
        nth(n) == CHOOSE i \in keep :
                      Cardinality({j \in keep : j < i}) = n - 1
    IN [n \in 1..Cardinality(keep) |-> m[nth(n)]]

\* Logger.init_menu: subs are the requests the consumers submit from their
\* setup; the layout of the widgets is not part of the model
init_menu(s, subs) ==
    submit_all([s EXCEPT !.menu = PopHelp(@),
                         !.crawl_log = Append(@, "init_menu()"),
                         !.did = Append(@, "init_menu")], subs)

\* mutant: a Parameter keeps its own id only
ParameterOwnId(ids) == <<Last(ids)>>

\* 'self.ids = list(ids)' of Parameter.__init__: a copy of the id stack
\* as it is when the Parameter is created
ParameterIds(ids) == ids

\* mutant: the root level is left with a 'q' as well
pop_level_quits(s, subs) ==
    LET s1 == [s EXCEPT !.menu_iter = Front(@), !.menu_ids = Front(@)]
    IN IF Len(s1.menu_iter) = 0
       THEN [clear_input(init_menu(write(s1, "q"), subs))
                EXCEPT !.read_func = "parse_request_stack"]
       ELSE write(s1, "q")

\* 'except StopIteration' of parse_submenus: the iterator of the level is
\* exhausted
pop_level(s, subs) ==
    LET s1 == [s EXCEPT !.menu_iter = Front(@), !.menu_ids = Front(@)]
    IN IF Len(s1.menu_iter) = 0
       THEN [clear_input(init_menu(s1, subs))
                EXCEPT !.read_func = "parse_request_stack"]
       ELSE write(s1, "q")

\* Logger.parse_submenus
parse_submenus(s, subs) ==
    CASE s.read_state = 0 ->
           IF Len(s.menu_iter) = 0
           THEN [s EXCEPT !.raised = TRUE, !.timer = FALSE]
           ELSE LET it == Last(s.menu_iter)
                    items == ItemsAt(s.menu, it.path)
                    n == Len(s.menu_iter)
                IN IF it.pos < Len(items)
                   THEN LET e == items[it.pos + 1]
                        IN [s EXCEPT
                              !.menu_iter[n].pos = @ + 1,
                              !.menu_key = e.name,
                              !.menu_item = Append(it.path, it.pos + 1),
                              !.menu_ids[n] = e.num,
                              !.read_state =
                                  IF e.kind = "menu" THEN 10
                                  ELSE IF e.kind = "param" THEN 20
                                  ELSE @]
                   ELSE pop_level(s, subs)
      [] s.read_state = 10 ->
           [write(clear_input(s), EntryAt(s.menu, s.menu_item).num)
               EXCEPT !.read_state = @ + 1]
      [] s.read_state = 11 ->
           IF Len(s.input) > 1 /\ Contains("Select", Last(s.input))
           THEN LET r == parse_menu(s, s.menu_key)
                    e == EntryAt(s.menu, s.menu_item)
                IN IF r.none THEN [r.s EXCEPT !.raised = TRUE]
                   ELSE IF Len(r.menu) > 0
                   THEN [r.s EXCEPT
                           !.menu = PutEntry(@, s.menu_item,
                                       [e EXCEPT !.sub =
                                            DictUpdate(@, r.menu)]),
                           !.menu_iter =
                               Append(@, [path |-> s.menu_item, pos |-> 0]),
                           !.menu_ids = Append(@, None),
                           !.read_state = 0]
                   ELSE r.s
           ELSE s
      [] s.read_state = 20 ->
           [write(clear_input(s), EntryAt(s.menu, s.menu_item).num)
               EXCEPT !.read_state = @ + 1]
      [] s.read_state = 21 ->
           LET inp == s.input
               key == Lower(s.menu_key)
               first(k) == /\ StartsWith(Lower(inp[k]), key)
                           /\ \A j \in 1..(k - 1) :
                                  ~StartsWith(Lower(inp[j]), key)
               prompts == {k \in 1..Len(inp) :
                              /\ ~first(k)
                              /\ Contains("new value", Lower(inp[k]))
                              /\ Last(RStrip(inp[k])) = ":"}
           IN IF (\A k \in 1..Len(inp) : ~first(k)) \/ prompts = {}
              THEN s
              ELSE LET list_start == CHOOSE k \in 1..Len(inp) : first(k)
                       list_end ==
                           (CHOOSE k \in prompts :
                                \A j \in prompts : k <= j) - 1
                       l == inp[list_end + 1]
                       i == Find(l, <<"new value">>)
                       a == i + Find(PySlice(l, i, Len(l)), <<"(">>) + 1
                       e == EntryAt(s.menu, s.menu_item)
                       param ==
                           [ids |-> ParameterIds(s.menu_ids), name |-> s.menu_key,
                            value |-> e.value,
                            spec |-> PySlice(l, a, Find(l, <<")", ":">>)),
                            selection |-> PySlice(inp, list_start, list_end)]
                       s1 == [s EXCEPT !.menu =
                                 PutEntry(@, s.menu_item,
                                     [e EXCEPT !.resolved = TRUE,
                                               !.param = param])]
                   IN [write(s1, "keepthevalue") EXCEPT !.read_state = 0]
      [] OTHER -> s

\* mutant: the halted mode runs the queue
parse_idle_dispatches(s) == parse_request_stack(s)

\* Logger.parse_idle
parse_idle(s) == s

\* 'self.read_func()' of Logger.read
call_read_func(s, answer, subs) ==
    CASE s.read_func = "parse_logo" -> parse_logo(s)
      [] s.read_func = "parse_configfile" -> parse_configfile(s)
      [] s.read_func = "configure_menu" -> configure_menu(s)
      [] s.read_func = "parse_mainmenu" -> parse_mainmenu(s)
      [] s.read_func = "parse_submenus" -> parse_submenus(s, subs)
      [] s.read_func = "parse_request_stack" -> parse_request_stack(s)
      [] s.read_func = "parse_read_request" ->
           parse_read_request(s, answer, subs)
      [] s.read_func = "parse_write_request" -> parse_write_request(s)
      [] OTHER -> parse_idle(s)

\* mutant: a tick that has read the waiting bytes goes on to call read_func
read_feeds_and_steps(s, x, answer, subs) ==
    IF s.ser = None /\ s.fault = "open" THEN stop_logger(s)
    ELSE LET s0 == IF s.ser = None
                   THEN [s EXCEPT !.ser = "open", !.wire = <<>>]
                   ELSE s
         IN IF s0.fault = "poll" THEN stop_logger(s0)
            ELSE IF Len(x) > 0
            THEN LET lines == SplitNL(x)
                     in0 == IF Len(s0.input) = 0 THEN <<<<>>>> ELSE s0.input
                     in1 == [in0 EXCEPT ![Len(in0)] = @ \o RStripCR(lines[1])]
                 IN call_read_func(
                        [s0 EXCEPT !.input =
                            in1 \o [k \in 1..(Len(lines) - 1) |->
                                       RStripCR(lines[k + 1])]],
                        answer, subs)
            ELSE call_read_func(s0, answer, subs)

\* Logger.read, the polling tick: x are the bytes waiting in the transport
read(s, x, answer, subs) ==
    IF s.ser = None /\ s.fault = "open" THEN stop_logger(s)
    ELSE LET s0 == IF s.ser = None
                   THEN [s EXCEPT !.ser = "open", !.wire = <<>>]
                   ELSE s
         IN IF s0.fault = "poll" THEN stop_logger(s0)
            ELSE IF Len(x) > 0
            THEN LET lines == SplitNL(x)
                     in0 == IF Len(s0.input) = 0 THEN <<<<>>>> ELSE s0.input
                     in1 == [in0 EXCEPT ![Len(in0)] = @ \o RStripCR(lines[1])]
                 IN [s0 EXCEPT !.input =
                        in1 \o [k \in 1..(Len(lines) - 1) |->
                                   RStripCR(lines[k + 1])]]
            ELSE call_read_func(s0, answer, subs)

\* ------------------------------------------------------------------------
\* The scheduler after the crawl: the polling tick and the submissions.
\* ------------------------------------------------------------------------
\* fragments the device sends while the scheduler owns control
Frags == {"Select", "new value"}
\* byte chunks the transport delivers to one tick
Chunks == {<<f>> : f \in Frags \cup {NL}} \cup {<<f, NL>> : f \in Frags}

Answers == {"yes", "no"}
\* stop markers a consumer passes with an identifier
StopsOf(ident) ==
    IF ident = "run" THEN <<"select", "new value">> ELSE <<"select">>
\* start tokens of a submission, 'STAY' only as the trailing sentinel
Starts == {<<>>, <<"1">>, <<"1", "2">>, <<"1", "STAY">>}

\* the submissions the consumers make
ReadSubs ==
    {[target |-> "t1", ident |-> "bar", start |-> st,
      stop |-> StopsOf("bar"), act |-> "read"] : st \in Starts}
    \cup {[target |-> "t1", ident |-> "run", start |-> <<"1">>,
            stop |-> StopsOf("run"), act |-> "read"]}
TransmitSubs ==
    {[target |-> "t2", ident |-> "gain", start |-> st,
      stop |-> <<"select", "new value">>, act |-> "transmit"] :
         st \in {<<"1", "2">>}}
WriteSubs ==
    {[target |-> "v", ident |-> None, start |-> st, stop |-> <<None>>,
      act |-> "write"] : st \in {<<>>, <<"1">>}}
AllSubs == ReadSubs \cup TransmitSubs \cup WriteSubs

\* number of fragments in the lines of a buffer
RECURSIVE NumFrags(_)
NumFrags(inp) ==
    IF Len(inp) = 0 THEN 0 ELSE Len(Head(inp)) + NumFrags(Tail(inp))

\* the buffer holds at most maxin fragments and newlines
InputFits(inp, maxin) ==
    Len(inp) = 0 \/ NumFrags(inp) + Len(inp) - 1 <= maxin

\* the inputs of a tick that matter in the state it starts from
AnswersAt(s) ==
    IF s.read_func = "parse_read_request" /\ s.read_state = 1
    THEN Answers ELSE {"no"}
CallbackSubsAt(s, subs) ==
    IF s.read_func = "parse_read_request" /\ s.read_state \in {1, 2}
    THEN {<<>>} \cup {<<c>> : c \in subs} ELSE {<<>>}

\* the crawl has completed (parse_submenus, lines 2944-2947)
Crawled == [Activated EXCEPT !.read_func = "parse_request_stack"]

Init == StartsAs(Crawled)

\* the fields after a call that leaves at most maxin fragments and
\* newlines in the buffer
BecomesFed(s, maxin) == InputFits(s.input, maxin) /\ Becomes(s)

\* the fields after a call, maxsub requests being accepted at most
BecomesQueued(s, maxsub) == s.nsub <= maxsub /\ Becomes(s)

\* the same with at most maxpolls idle polls counted
BecomesPolled(s, maxsub, maxpolls) ==
    /\ s.nsub <= maxsub
    /\ s.read_count <= maxpolls
    /\ Becomes(s)

\* a polling tick that finds bytes waiting: one of chunks, the buffer
\* holding at most maxin fragments and newlines afterwards
TickFeed(chunks, maxin) ==
    /\ timer
    /\ \E x \in chunks :
         BecomesFed(read(Self, x, "no", <<>>), maxin)

\* a polling tick that finds no bytes waiting; a read callback submits
\* nothing or one of subs
TickStep(subs, maxsub) ==
    /\ timer
    /\ \E answer \in AnswersAt(Self), cb \in CallbackSubsAt(Self, subs) :
         BecomesQueued(read(Self, <<>>, answer, cb), maxsub)

\* submit_read
SubmitRead(subs, maxsub) ==
    \E c \in subs :
        BecomesQueued(read_request(Self, c.target, c.ident, c.start, c.stop,
                                   "read"), maxsub)

\* submit_transmit
SubmitTransmit(subs, maxsub) ==
    \E c \in subs :
        BecomesQueued(transmit_request(Self, c.target, c.ident, c.start),
                      maxsub)

\* submit_write
SubmitWrite(subs, maxsub) ==
    \E c \in subs :
        BecomesQueued(write_request(Self, c.target, c.start), maxsub)

Next ==
    \/ TickFeed(Chunks, MaxInput)
    \/ TickStep(AllSubs, MaxSubmit)
    \/ SubmitRead(ReadSubs, MaxSubmit)
    \/ SubmitTransmit(TransmitSubs, MaxSubmit)
    \/ SubmitWrite(WriteSubs, MaxSubmit)

\* the scheduler with several consumers and a device that only prompts
Spec == Init /\ [][Next]_vars

\* ------------------------------------------------------------------------
\* The scheduler with few requests and a device that sends prompts,
\* questions and HALT.
\* ------------------------------------------------------------------------
FragsR == {"Select", "new value", " [y/n] ", "HALT"}
ChunksR == {<<f>> : f \in FragsR \cup {NL}} \cup {<<f, NL>> : f \in FragsR}

ReadSubsR ==
    [target : {"t1"}, ident : {"bar"},
     start : {<<"1">>, <<"1", "2">>, <<"1", "STAY">>, <<"STAY">>},
     stop : {<<"select">>}, act : {"read"}]
    \cup [target : {"t1"}, ident : {"run"}, start : {<<"1">>},
          stop : {<<>>, <<"select", "new value">>, <<"">>},
          act : {"read"}]
TransmitSubsR ==
    [target : {"t2"}, ident : {"gain"}, start : {<<"2">>, <<"1", "2">>},
     stop : {<<"select", "new value">>}, act : {"transmit"}]
WriteSubsR ==
    [target : {"v"}, ident : {None}, start : {<<"1">>},
     stop : {<<None>>}, act : {"write"}]
\* the consumers submit one request at a time
Quiet == request_type = None /\ Len(request_stack) = 0

NextRead ==
    \/ TickFeed(ChunksR, MaxLines)
    \/ TickStep({}, MaxSubmit)
    \/ Quiet /\ SubmitRead(ReadSubsR, MaxSubmit)
    \/ Quiet /\ SubmitTransmit(TransmitSubsR, MaxSubmit)
    \/ Quiet /\ SubmitWrite(WriteSubsR, MaxSubmit)

SpecRead == Init /\ [][NextRead]_vars

\* ------------------------------------------------------------------------
\* The crawl: the Logger from activate() on, with a device that boots,
\* answers the selections and may halt at any time.
\* ------------------------------------------------------------------------
\* the request a consumer submits from its setup in init_menu
SetupSubs ==
    {[target |-> "t1", ident |-> "bar", start |-> <<"1">>,
      stop |-> <<"select">>, act |-> "read"]}

\* the submissions that matter in the state a tick starts from
SubsAt(s, subs) ==
    IF s.read_func = "parse_submenus"
    THEN {<<>>} \cup {<<c>> : c \in subs}
    ELSE CallbackSubsAt(s, subs)

InitCrawl == StartsAs([Activated EXCEPT !.dev = Booted])

\* some of the bytes the device has sent arrive at the transport
DeviceSends ==
    \E n \in 1..Len(dev.outbox) :
        Becomes([Self EXCEPT
                   !.wire = @ \o SubSeq(dev.outbox, 1, n),
                   !.dev.outbox = SubSeq(@, n + 1, Len(@))])

\* the device halts: it prints its last words and answers no more
DeviceHalts ==
    /\ dev.mode \in {"menu", "value"}
    /\ Becomes([Self EXCEPT !.dev.mode = "halted",
                            !.dev.outbox = @ \o HaltBlock])

\* a polling tick that finds bytes waiting ('if self.ser.in_waiting > 0')
\* and reads them all
TickRead ==
    /\ timer
    /\ Len(wire) > 0
    /\ Becomes(read([Self EXCEPT !.wire = <<>>], wire, "no", <<>>))

\* a polling tick that finds no bytes waiting and calls read_func; the
\* banner arrives within maxpolls such ticks
TickPoll(subs, maxsub, maxpolls) ==
    /\ timer
    /\ Len(wire) = 0
    /\ \E answer \in AnswersAt(Self), cb \in SubsAt(Self, subs) :
         BecomesPolled(read(Self, <<>>, answer, cb), maxsub, maxpolls)

NextCrawl ==
    \/ DeviceSends
    \/ DeviceHalts
    \/ TickRead
    \/ TickPoll(SetupSubs, MaxSubmit, MaxPolls)

SpecCrawl == InitCrawl /\ [][NextCrawl]_vars

\* ------------------------------------------------------------------------
\* The crawl with consumers that submit requests before the scheduler owns
\* control: during the crawl and in the halted mode.
\* ------------------------------------------------------------------------
BootReads ==
    {[target |-> "t1", ident |-> "bar", start |-> <<"1">>,
      stop |-> <<"select">>, act |-> "read"],
     [target |-> "t1", ident |-> "baz", start |-> <<"1", "STAY">>,
      stop |-> <<"select">>, act |-> "read"]}
BootTransmits ==
    {[target |-> "t2", ident |-> "gain", start |-> <<"1", "1">>,
      stop |-> <<"select", "new value">>, act |-> "transmit"]}
BootWrites ==
    {[target |-> "v", ident |-> None, start |-> <<"1">>,
      stop |-> <<None>>, act |-> "write"]}
BootSubs == BootReads \cup BootTransmits \cup BootWrites

\* the crawl owns control
Crawling == read_func \in CrawlFuncs
\* the halted mode
Halted == read_func = "parse_idle"

\* all the bytes the device has sent arrive at the transport
DeviceSendsAll ==
    /\ Len(dev.outbox) > 0
    /\ Becomes([Self EXCEPT !.wire = @ \o dev.outbox, !.dev.outbox = <<>>])

NextBoot ==
    \/ DeviceSendsAll
    \/ DeviceHalts
    \/ TickRead
    \/ TickPoll({}, MaxSubmit, MaxPolls)
    \/ (Crawling \/ Halted) /\ SubmitRead(BootReads, MaxSubmit)
    \/ (Crawling \/ Halted) /\ SubmitTransmit(BootTransmits, MaxSubmit)
    \/ (Crawling \/ Halted) /\ SubmitWrite(BootWrites, MaxSubmit)

SpecBoot == InitCrawl /\ [][NextBoot]_vars

\* ------------------------------------------------------------------------
\* The crawl and the scheduler with a transport that may fail.
\* ------------------------------------------------------------------------
\* the transport operations that raise: in_waiting or read, write or
\* flush, reset_input_buffer
Faults == {"poll", "write", "reset"}

LinkReads ==
    {[target |-> "t1", ident |-> "bar", start |-> <<"1">>,
      stop |-> <<"select">>, act |-> "read"]}
LinkTransmits ==
    {[target |-> "t2", ident |-> "gain", start |-> <<"2">>,
      stop |-> <<"select", "new value">>, act |-> "transmit"]}
LinkWrites ==
    {[target |-> "v", ident |-> None, start |-> <<"1">>,
      stop |-> <<None>>, act |-> "write"]}
LinkSubs == LinkReads \cup LinkTransmits \cup LinkWrites

\* the last call emitted sigLoggerDisconnected
Disconnected(s) == \E i \in 1..Len(s.did) : s.did[i] = "disconnected"

\* the fields after a call in which the transport failed
BecomesDisconnected(s, maxsub) ==
    /\ Disconnected(s)
    /\ s.nsub <= maxsub
    /\ Becomes(s)

\* Logger.read_request or Logger.write_request for the submission c
submit(s, c) ==
    IF c.act = "write" THEN write_request(s, c.target, c.start)
    ELSE read_request(s, c.target, c.ident, c.start, c.stop, c.act)

\* a polling tick in which a transport operation raises
TickFails ==
    /\ timer
    /\ \E f \in Faults, answer \in AnswersAt(Self) :
         BecomesDisconnected(read([WithFault(f) EXCEPT !.wire = <<>>], wire,
                                  answer, <<>>), nsub)

\* a submission in which a transport operation raises
SubmitFails(subs, maxsub) ==
    \E c \in subs, f \in Faults :
        BecomesDisconnected(submit(WithFault(f), c), maxsub)

NextLink ==
    \/ DeviceSendsAll
    \/ TickRead
    \/ TickPoll({}, MaxSubmit, MaxPolls)
    \/ TickFails
    \/ SubmitRead(LinkReads, MaxSubmit)
    \/ SubmitTransmit(LinkTransmits, MaxSubmit)
    \/ SubmitWrite(LinkWrites, MaxSubmit)
    \/ SubmitFails(LinkSubs, MaxSubmit)

SpecLink == InitCrawl /\ [][NextLink]_vars

\* ------------------------------------------------------------------------
\* Properties of the request scheduler.
\* ------------------------------------------------------------------------
\* the tokens of a sequence of writes
Toks(o) == [i \in 1..Len(o) |-> o[i].tok]

\* the last call did e
Did(e) == \E i \in 1..Len(did) : did[i] = e

\* a request with the key (target, identifier, kind) of c is in the queue
HasKey(stack, c) ==
    \E i \in 1..Len(stack) :
        /\ stack[i].given.target = c.target
        /\ stack[i].given.ident = c.ident
        /\ stack[i].given.act = c.act

\* c is a read or transmit submission with the trailing sentinel
HasStay(c) ==
    c.act # "write" /\ Len(c.start) > 0 /\ Last(c.start) = "STAY"

\* the step is the submission of c by a consumer
Submitted(c) ==
    Becomes(IF c.act = "write"
            THEN write_request(Self, c.target, c.start)
            ELSE read_request(Self, c.target, c.ident, c.start, c.stop,
                              c.act))

\* C1: at most one request is in flight: from its dequeue to the end of its
\* last step no other request is dequeued, and every token written belongs
\* to the one request that is in flight, also when requests are submitted
\* from a read callback or while the active request waits for the device.
C1_OneInFlight ==
    /\ Cardinality(inflight) <= 1
    /\ request_type # None => inflight = {request_uid}
    /\ request_type = None => inflight = {}
    /\ \A i \in 1..Len(out) : out[i].inflight = {out[i].uid}

\* C1 witness: a read callback of the active request has submitted a
\* request, which is queued while the active request is still in flight.
C1_Witness ==
    /\ request_type # None
    /\ Len(calls) > 0
    /\ Did("queued")
    /\ Len(request_stack) > 0
    /\ inflight = {request_uid}

\* C2: the queue is first in, first out: requests are queued in the order
\* of their submission, the request in flight was submitted before every
\* queued one, and every token written belongs to a request submitted
\* before every request still queued.
C2_Fifo ==
    \A i \in 1..Len(request_stack) :
        /\ \A j \in 1..(i - 1) :
               request_stack[j].uid < request_stack[i].uid
        /\ \A u \in inflight : u < request_stack[i].uid
        /\ \A k \in 1..Len(out) : out[k].uid < request_stack[i].uid

\* C2 witness: a request was dequeued and its first token written while a
\* request submitted later is still queued.
C2_Witness ==
    /\ Did("dequeue")
    /\ Len(out) > 0
    /\ Len(request_stack) > 0
    /\ request_uid > 1

\* C3: a read or transmit submission whose key (target, identifier, kind)
\* is already queued leaves the queue and the sticky block flag unchanged
\* and writes nothing.
C3_DuplicateIgnored ==
    [][\A c \in ReadSubs \cup TransmitSubs :
          (HasKey(request_stack, c) /\ Submitted(c))
             => /\ request_stack' = request_stack
                /\ request_block' = request_block
                /\ out' = <<>>]_vars

\* C3 witness: the last call was the submission of a duplicate of a queued
\* request, made while the sticky block flag is not set.
C3_Witness ==
    /\ did = <<"duplicate">>
    /\ Len(request_stack) > 0
    /\ ~request_block

\* C4 as claimed: no two queued requests have the same (target, identifier,
\* kind), for reads, transmits and writes.
C4_NoDuplicates ==
    \A i, j \in 1..Len(request_stack) :
        (/\ request_stack[i].target = request_stack[j].target
         /\ request_stack[i].ident = request_stack[j].ident
         /\ request_stack[i].act = request_stack[j].act) => i = j

\* C4 amended: no two queued read or transmit requests have the same
\* (target, identifier, kind); writes are queued as often as submitted.
C4_NoDuplicateReads ==
    \A i, j \in 1..Len(request_stack) :
        (/\ request_stack[i].act # "write"
         /\ request_stack[i].target = request_stack[j].target
         /\ request_stack[i].ident = request_stack[j].ident
         /\ request_stack[i].act = request_stack[j].act) => i = j

\* C4 witness: a duplicate was submitted while two reads or transmits with
\* different keys are queued.
C4_Witness ==
    /\ Did("duplicate")
    /\ Len(request_stack) = 2
    /\ \A i \in 1..Len(request_stack) : request_stack[i].act # "write"

\* a sticky request is active
StickyActive == request_type # None /\ ~request_end

\* C5 as claimed: a submission made while a sticky request is active writes
\* nothing and is held, that is, it is in the queue afterwards.
C5_HeldNotLost ==
    [][\A c \in AllSubs :
          (/\ StickyActive
           /\ Len(c.start) > 0
           /\ ~HasKey(request_stack, c)
           /\ Submitted(c))
             => (out' = <<>> /\ HasKey(request_stack', c))]_vars

\* C5 amended: a submission made while a sticky request is active writes
\* nothing; without the sentinel (read, transmit or write) it is dropped
\* and the queue is unchanged; with the sentinel and a key not yet queued
\* it is appended to the queue.
C5_StickyDropsOthers ==
    [][\A c \in AllSubs :
          (StickyActive /\ Submitted(c))
             => /\ out' = <<>>
                /\ IF HasStay(c) /\ ~HasKey(request_stack, c)
                   THEN /\ Len(request_stack') = Len(request_stack) + 1
                        /\ Front(request_stack') = request_stack
                        /\ Last(request_stack').given = c
                   ELSE request_stack' = request_stack]_vars

\* C5 witness: a submission without the sentinel was dropped while a
\* sticky request is active.
C5_Witness ==
    /\ did = <<"blocked">>
    /\ StickyActive

\* C6: the sentinel 'STAY' is never written to the device, and the last
\* step of a read request submitted with it writes nothing and returns to
\* Idle.
C6_StayStripped ==
    /\ \A i \in 1..Len(out) : out[i].tok # "STAY"
    /\ (/\ Did("unwind")
        /\ request_given.act = "read"
        /\ HasStay(request_given))
          => /\ out = <<>>
             /\ request_type = None
             /\ read_func = "parse_request_stack"

\* C6 witness: a read request submitted with the sentinel has completed.
C6_Witness ==
    /\ Did("unwind")
    /\ request_given.act = "read"
    /\ HasStay(request_given)

\* C7 as claimed: the last step of a request without the sentinel writes
\* only 'q', and exactly one 'q' when the request had one start token.
C7_UnwindWritesQ ==
    (Did("unwind") /\ ~HasStay(request_given))
        => /\ \A i \in 1..Len(out) : out[i].tok = "q"
           /\ Len(request_given.start) = 1 => Len(out) = 1

\* C7 amended: the last step of a request without the sentinel clears the
\* buffer, writes exactly one 'h' whatever the number of start tokens, and
\* returns to Idle in the same step.
C7_UnwindWritesH ==
    (Did("unwind") /\ ~HasStay(request_given))
        => /\ Toks(out) = <<"h">>
           /\ input = <<>>
           /\ request_type = None
           /\ read_func = "parse_request_stack"

\* C7 witness: a read request with two start tokens and without the
\* sentinel has completed.
C7_Witness ==
    /\ Did("unwind")
    /\ request_given.act = "read"
    /\ Len(request_given.start) = 2
    /\ ~HasStay(request_given)

\* C8: the terminal read callback gets the identifier and the buffered
\* lines of the active request, and success is true exactly when the
\* recorded index of the matched stop marker is 0, in which case the first
\* marker of the request is in the line that ended the wait.
C8_SuccessIffFirst ==
    \A i \in 1..Len(calls) :
        calls[i].final
          => /\ calls[i].ident = request_given.ident
             /\ calls[i].target = request_given.target
             /\ calls[i].lines = input
             /\ calls[i].success <=> request_stop_index = 0
             /\ calls[i].success
                  => /\ Len(request_given.stop) > 0
                     /\ Contains(request_given.stop[1], stop_line)

\* C8 witness: the terminal callback of a request whose wait was ended by
\* its second marker was called with success false.
C8_Witness ==
    \E i \in 1..Len(calls) :
        /\ calls[i].final
        /\ ~calls[i].success
        /\ request_stop_index = 1

\* the step is a polling tick that found no bytes waiting
Stepped == \E answer \in Answers : Becomes(read(Self, <<>>, answer, <<>>))

\* a buffered line contains HALT
HaltBuffered == \E i \in 1..Len(input) : Contains("HALT", input[i])

\* C10 as claimed: when a line with HALT is buffered, the next step of the
\* scheduler (Idle or any step of a request) enters the halted mode and
\* discards the queue and the request in flight.
C10_HaltDiscards ==
    [][(HaltBuffered /\ Stepped)
          => /\ read_func' = "parse_idle"
             /\ Len(request_stack') = 0
             /\ request_type' = None]_vars

\* ------------------------------------------------------------------------
\* Properties of the menu crawl.
\* ------------------------------------------------------------------------
\* the step is a polling tick of the crawl that found no bytes waiting
Polled ==
    /\ Len(wire) = 0
    /\ \E cb \in SubsAt(Self, SetupSubs) :
           Becomes(read(Self, <<>>, "no", cb))

\* C9 as claimed: in every state of the crawl, when a line with HALT is
\* buffered, the next step of the crawl ends in the halted mode, writes
\* nothing and raises no error.
C9_HaltStopsCrawl ==
    [][(HaltBuffered /\ read_func \in CrawlFuncs /\ Polled)
          => /\ read_func' = "parse_idle"
             /\ out' = <<>>
             /\ ~raised']_vars

\* the crawl has completed
CrawlDone == read_func = "parse_request_stack" /\ Did("init_menu")

\* ------------------------------------------------------------------------
\* Properties of the halted mode and of the hand-over to the scheduler.
\* ------------------------------------------------------------------------
\* C11: once the engine is halted nothing more is written to the device:
\* every step taken in the halted mode, a polling tick or a submission of a
\* read, write or transmit request, writes nothing and leaves the engine
\* halted.
C11_HaltedIsSilent ==
    [][Halted => (out' = <<>> /\ Halted')]_vars

\* C11 witness: a request was submitted and queued in the halted mode.
C11_Witness ==
    /\ Halted
    /\ did = <<"queued">>
    /\ Len(request_stack) > 0

NotQueued(c) ==
    \/ c.act # "write" /\ HasKey(request_stack, c)
    \/ ~HasStay(c) /\ request_block

\* C13 as claimed: a request submitted while the crawl owns control writes
\* nothing and is in the queue afterwards.
C13_CrawlQueuesAll ==
    [][\A c \in BootSubs :
          (Crawling /\ Submitted(c))
             => (out' = <<>> /\ HasKey(request_stack', c))]_vars

\* C13 amended: while the crawl owns control no request is in flight and no
\* token of a request is written; a submission then writes nothing, leaves
\* the crawl where it is and appends the request to the queue, unless its
\* key is queued already or the block flag, set by an earlier submission
\* with the sentinel, drops it; the first polling step after the crawl has
\* completed dequeues the oldest queued request.
C13_CrawlOnlyQueues ==
    /\ [](Crawling => /\ inflight = {}
                      /\ request_type = None
                      /\ \A i \in 1..Len(out) : out[i].uid = 0)
    /\ [][\A c \in BootSubs :
             (Crawling /\ Submitted(c))
                => /\ out' = <<>>
                   /\ read_func' = read_func
                   /\ read_state' = read_state
                   /\ IF NotQueued(c)
                      THEN request_stack' = request_stack
                      ELSE /\ Front(request_stack') = request_stack
                           /\ Last(request_stack').given = c]_vars
    /\ [][(/\ read_func = "parse_request_stack"
           /\ request_type = None
           /\ Len(request_stack) > 0
           /\ Polled)
             => /\ request_uid' = request_stack[1].uid
                /\ request_stack' = Tail(request_stack)
                /\ Len(out') > 0]_vars

\* C13 witness: the first request submitted during the crawl was dequeued
\* after the crawl and its first token written, another one is still queued.
C13_Witness ==
    /\ Did("dequeue")
    /\ request_uid = 1
    /\ Len(out) > 0
    /\ Len(request_stack) > 0

\* ---------------------------------------------------------------------
\* The crawl of a device that stays connected and answers every selection
\* with the block it selects: the bytes it sent arrive at last, in any
\* number of pieces, and the polling timer keeps ticking.

NextTree ==
    \/ DeviceSends
    \/ TickRead
    \/ TickPoll({}, MaxSubmit, MaxPolls)

SpecTree ==
    /\ InitCrawl
    /\ [][NextTree]_vars
    /\ WF_vars(DeviceSends)
    /\ WF_vars(TickRead)
    /\ WF_vars(TickPoll({}, MaxSubmit, MaxPolls))

RECURSIVE CountIn(_, _)
CountIn(seq, S) ==
    IF Len(seq) = 0 THEN 0
    ELSE (IF seq[1] \in S THEN 1 ELSE 0) + CountIn(Tail(seq), S)

\* the Submenu and Parameter entries of a tree
RECURSIVE NumEntries(_)
NumEntries(items) ==
    IF Len(items) = 0 THEN 0
    ELSE (IF items[1].kind \in {"menu", "param"} THEN 1 ELSE 0)
         + (IF items[1].kind = "menu" THEN NumEntries(items[1].sub) ELSE 0)
         + NumEntries(Tail(items))

Done == read_func = "parse_request_stack"

\* every byte has arrived and been read, and a tick changes nothing: the
\* timer has stopped, or read_func returns with the object as it found it
Stalled ==
    /\ wire = <<>>
    /\ dev.outbox = <<>>
    /\ ~timer \/ read(Self, <<>>, "no", <<>>) = Self

\* C14: the crawl of a device that answers every selection reaches Done:
\* until it is Done there is a byte still to arrive or a tick that moves
\* the crawl on, and once Done it has handed the tree over exactly once and
\* has written one id for each Submenu and each Parameter entry of the tree
C14_CrawlCompletes ==
    /\ Done \/ ~Stalled
    /\ Done => /\ CountIn(crawl_log, {"init_menu()"}) = 1
               /\ CountIn(crawl_log, {"1", "2"}) = NumEntries(menu)

\* C14, the part that holds: a crawl that is Done has handed the tree over
\* exactly once and has written one id for each Submenu and Parameter entry
C14_DoneWroteEachIdOnce ==
    Done => /\ CountIn(crawl_log, {"init_menu()"}) = 1
            /\ CountIn(crawl_log, {"1", "2"}) = NumEntries(menu)

C14_Witness ==
    /\ Done
    /\ NumEntries(menu) = 3
    /\ crawl_log = <<"detailed on", "echo off", "print", "1", "1",
                     "keepthevalue", "q", "2", "keepthevalue",
                     "init_menu()">>

\* the crawl waits for the prompt of a Parameter that has arrived whole
C14_Stuck ==
    /\ read_func = "parse_submenus" /\ read_state = 21
    /\ wire = <<>> /\ dev.outbox = <<>>
    /\ \E k \in 1..Len(input) : Contains("new value", Lower(input[k]))

\* ---------------------------------------------------------------------
\* Menu parsing: the crawl has written 'print' and a menu block is
\* buffered; the next tick parses it (parse_mainmenu, read_state 1).

\* lines of the shape "NN) Name ...", in the device's format and in
\* variations of it
FooLines ==
    {<<"1", ")", " ", "Foo", " ", "...">>,
     <<"1", ")", " ", "Foo", "...">>,
     <<"1", ")", " ", "Foo">>,
     <<"1", ")", " ", "Foo", ":", " ", "x", " ", "...">>}
BarLines ==
    {<<"2", ")", " ", "Bar", ":", " ", "5", " ", "V">>,
     <<"2", ")", " ", "Bar", ":", " ", "5", " ", " ", "V">>,
     <<"2", ")", " ", "Bar">>,
     <<"2", ")", " ", "Bar", " ", "...">>}
BazLines ==
    {<<"3", ")", " ", "Baz", ":", " ", "on">>,
     <<"3", ")", " ", "Baz", ":", " ", "1", ":", "2">>,
     <<"3", ")", " ", "Baz", " ", "now">>,
     <<"3", ")", " ", "Baz", "...">>}

\* at most one line of each id, in the order of the ids
InteriorLines ==
    {a \o b \o c : a \in {<<>>} \cup {<<l>> : l \in FooLines},
                    b \in {<<>>} \cup {<<l>> : l \in BarLines},
                    c \in {<<>>} \cup {<<l>> : l \in BazLines}}

MenuBlocks ==
    {<<<<"Menu", ":">>>> \o ls \o <<<<"Select", ":">>>> : ls \in InteriorLines}

InitMenu ==
    \E b \in MenuBlocks :
        StartsAs([Activated EXCEPT
                    !.read_func = "parse_mainmenu",
                    !.read_state = 1,
                    !.input = b,
                    !.dev = [mode |-> "menu", path |-> <<>>,
                             outbox |-> <<>>],
                    !.crawl_log = <<"detailed on", "echo off", "print">>])

\* the polling tick that parses the buffered main menu
ParseMainMenu ==
    /\ read_func = "parse_mainmenu"
    /\ timer
    /\ Becomes(read(Self, <<>>, "no", <<>>))

NextMenu == ParseMainMenu

SpecMenu == InitMenu /\ [][NextMenu]_vars

\* what is said of an entry: its name, id, kind and raw value
Shown(e) == [name |-> e.name, num |-> e.num, kind |-> e.kind,
             value |-> e.value]

\* the text of a line after "NN) "
Remainder(l) == PySlice(l, 3, Len(l))

\* an entry by its text: Submenu if the remainder ends in "...",
\* Parameter (name before the first colon, raw value after it) if it
\* contains a colon, Action otherwise
ByText(l) ==
    LET r == Strip(Remainder(l))
        c == Find(r, <<":">>)
    IN IF Last(r) = "..."
       THEN [name |-> Strip(Front(r)), num |-> l[1], kind |-> "menu",
             value |-> <<>>]
       ELSE IF c >= 0
       THEN [name |-> Strip(PySlice(r, 0, c)), num |-> l[1],
             kind |-> "param", value |-> Strip(PySlice(r, c + 1, Len(r)))]
       ELSE [name |-> r, num |-> l[1], kind |-> "action", value |-> <<>>]

\* an entry by its words: Submenu if the last blank-separated word is
\* "...", else Parameter if the words joined by single blanks contain a
\* colon (the name is the text before the first colon, the value the text
\* between the first and the second colon), else Action
ByWords(l) ==
    LET w == Words(Remainder(l))
        r == Join(w)
        c == Find(r, <<":">>)
        rest == PySlice(r, c + 1, Len(r))
        c2 == Find(rest, <<":">>)
    IN IF Last(w) = <<"...">>
       THEN [name |-> Join(Front(w)), num |-> l[1], kind |-> "menu",
             value |-> <<>>]
       ELSE IF c >= 0
       THEN [name |-> Strip(PySlice(r, 0, c)), num |-> l[1],
             kind |-> "param",
             value |-> Strip(IF c2 >= 0 THEN PySlice(rest, 0, c2) ELSE rest)]
       ELSE [name |-> r, num |-> l[1], kind |-> "action", value |-> <<>>]

\* the interior lines of a buffered block
Interior(inp) == SubSeq(inp, 2, Len(inp) - 1)

\* C15 as stated: every interior line "NN) Name ..." becomes an entry with
\* id NN that is a Submenu if the line has a trailing "...", a Parameter
\* (name, raw value) if the remainder contains a colon and an Action
\* otherwise; "1) Foo..." yields the Submenu Foo
C15_ClassifiesByText ==
    [][read_func = "parse_mainmenu" =>
         /\ Len(menu') = Len(Interior(input))
         /\ \A k \in 1..Len(menu') :
                Shown(menu'[k]) = ByText(Interior(input)[k])]_vars

\* C15: every interior line "NN) Name ..." becomes an entry with id NN
\* that is a Submenu if its last blank-separated word is "...", a
\* Parameter if the remainder contains a colon (name before the first
\* colon, value between the first and the second colon, blanks collapsed),
\* and an Action named by the remainder otherwise
C15_ClassifiesByWords ==
    [][read_func = "parse_mainmenu" =>
         /\ Len(menu') = Len(Interior(input))
         /\ \A k \in 1..Len(menu') :
                Shown(menu'[k]) = ByWords(Interior(input)[k])]_vars

\* "Menu:\n1) Foo ...\n2) Bar: 5 V\nSelect:" has been parsed
C15_Witness ==
    /\ read_func = "parse_submenus"
    /\ Len(menu) = 2
    /\ Shown(menu[1]) = [name |-> <<"Foo">>, num |-> "1", kind |-> "menu",
                         value |-> <<>>]
    /\ Shown(menu[2]) = [name |-> <<"Bar">>, num |-> "2", kind |-> "param",
                         value |-> <<"5", " ", "V">>]

\* "Menu:\n1) Foo...\n2) Bar: 5 V\nSelect:" has been parsed
C15_AttachedDots ==
    /\ read_func = "parse_submenus"
    /\ Len(menu) = 2
    /\ Shown(menu[1]) = [name |-> <<"Foo", "...">>, num |-> "1",
                         kind |-> "action", value |-> <<>>]
    /\ Shown(menu[2]).kind = "param"

\* ---------------------------------------------------------------------
\* Numbers and units.  The texts of this part are sequences of characters.
\* A number is n / q * 10^e in lowest terms, with n no multiple of 10 and
\* q no multiple of 2 or 5, so that equal numbers are equal records.

Abs(x) == IF x < 0 THEN 0 - x ELSE x

RECURSIVE GCD(_, _)
GCD(a, b) == IF b = 0 THEN a ELSE GCD(b, a % b)

RECURSIVE Pow10(_)
Pow10(k) == IF k <= 0 THEN 1 ELSE 10 * Pow10(k - 1)

RECURSIVE Canon(_, _, _)
Canon(n, q, e) ==
    IF n = 0 THEN [n |-> 0, q |-> 1, e |-> 0]
    ELSE IF q % 2 = 0 THEN Canon(n * 5, q \div 2, e - 1)
    ELSE IF q % 5 = 0 THEN Canon(n * 2, q \div 5, e - 1)
    ELSE IF n % 10 = 0 THEN Canon(n \div 10, q, e + 1)
    ELSE LET g == GCD(Abs(n), q)
         IN [n |-> n \div g, q |-> q \div g, e |-> e]

\* abs(a - b) < 1e-6
Close(a, b) ==
    LET emin == IF a.e < b.e THEN a.e ELSE b.e
        d == Abs(a.n * b.q * Pow10(a.e - emin) - b.n * a.q * Pow10(b.e - emin))
    IN IF emin + 6 >= 0
       THEN d = 0
       ELSE d < a.q * b.q * Pow10(0 - 6 - emin)

Digits == {"0", "1", "2", "3", "4", "5", "6", "7", "8", "9"}
DigitValue(c) ==
    CASE c = "0" -> 0 [] c = "1" -> 1 [] c = "2" -> 2 [] c = "3" -> 3
      [] c = "4" -> 4 [] c = "5" -> 5 [] c = "6" -> 6 [] c = "7" -> 7
      [] c = "8" -> 8 [] c = "9" -> 9
DigitChar(k) ==
    CASE k = 0 -> "0" [] k = 1 -> "1" [] k = 2 -> "2" [] k = 3 -> "3"
      [] k = 4 -> "4" [] k = 5 -> "5" [] k = 6 -> "6" [] k = 7 -> "7"
      [] k = 8 -> "8" [] k = 9 -> "9"

\* the characters of '0123456789.+-'
NumberChars == Digits \cup {".", "+", "-"}

\* what int() or float() accept of a run of NumberChars: an optional sign,
\* then digits with at most one point and at least one digit
Numeral(run) ==
    LET body == IF Len(run) > 0 /\ Head(run) \in {"+", "-"}
                THEN Tail(run) ELSE run
    IN /\ \A i \in 1..Len(body) : body[i] \in Digits \cup {"."}
       /\ \E i \in 1..Len(body) : body[i] \in Digits

\* the digits of a numeral as an integer
RECURSIVE DigitsValue(_, _)
DigitsValue(run, acc) ==
    IF Len(run) = 0 THEN acc
    ELSE IF Head(run) \in Digits
    THEN DigitsValue(Tail(run), 10 * acc + DigitValue(Head(run)))
    ELSE DigitsValue(Tail(run), acc)

\* int(run), float(run)
ValueOf(run) ==
    LET points == {i \in 1..Len(run) : run[i] = "."}
        frac == IF points = {} THEN 0
                ELSE Len(run) - (CHOOSE i \in points : TRUE)
        sign == IF Head(run) = "-" THEN 0 - 1 ELSE 1
    IN Canon(sign * DigitsValue(run, 0), 1, 0 - frac)

\* parse_number(s): raised tells a ValueError of int() or float(); v is
\* None or the number, type its Python type
parse_number(s) ==
    LET stops == {i \in 0..(Len(s) - 1) :
                     \/ s[i + 1] = "." /\ \E j \in 1..i : s[j] = "."
                     \/ s[i + 1] \notin NumberChars}
        n == IF stops = {} THEN Len(s)
             ELSE CHOOSE i \in stops : \A j \in stops : i <= j
        points == {i \in 0..(n - 1) : s[i + 1] = "."}
        have_point == points # {}
        ip == IF have_point THEN (CHOOSE i \in points : TRUE) + 1
              ELSE Len(s)
        run == SubSeq(s, 1, n)
    IN IF n = 0
       THEN [raised |-> FALSE, v |-> None, type |-> None, u |-> s, nd |-> 0]
       ELSE IF ~Numeral(run)
       THEN [raised |-> TRUE, v |-> None, type |-> None, u |-> <<>>,
             nd |-> 0]
       ELSE [raised |-> FALSE, v |-> ValueOf(run),
             type |-> IF have_point THEN "float" ELSE "int",
             u |-> Strip(SubSeq(s, n + 1, Len(s))),
             nd |-> IF n >= ip THEN n - ip ELSE 0]

\* unit_prefixes in the order of the dict, the factors as powers of ten
unit_prefixes ==
    <<[k |-> <<"D", "e", "k", "a">>, e |-> 1],
     [k |-> <<"d", "e", "k", "a">>, e |-> 1],
     [k |-> <<"H", "e", "k", "t", "o">>, e |-> 2],
     [k |-> <<"h", "e", "k", "t", "o">>, e |-> 2],
     [k |-> <<"k", "i", "l", "o">>, e |-> 3],
     [k |-> <<"K", "i", "l", "o">>, e |-> 3],
     [k |-> <<"M", "e", "g", "a">>, e |-> 6],
     [k |-> <<"m", "e", "g", "a">>, e |-> 6],
     [k |-> <<"G", "i", "g", "a">>, e |-> 9],
     [k |-> <<"g", "i", "g", "a">>, e |-> 9],
     [k |-> <<"T", "e", "r", "a">>, e |-> 12],
     [k |-> <<"t", "e", "r", "a">>, e |-> 12],
     [k |-> <<"P", "e", "t", "a">>, e |-> 15],
     [k |-> <<"p", "e", "t", "a">>, e |-> 15],
     [k |-> <<"E", "x", "a">>, e |-> 18],
     [k |-> <<"e", "x", "a">>, e |-> 18],
     [k |-> <<"D", "e", "z", "i">>, e |-> -1],
     [k |-> <<"d", "e", "z", "i">>, e |-> -1],
     [k |-> <<"Z", "e", "n", "t", "i">>, e |-> -2],
     [k |-> <<"c", "e", "n", "t", "i">>, e |-> -2],
     [k |-> <<"M", "i", "l", "l", "i">>, e |-> -3],
     [k |-> <<"m", "i", "l", "l", "i">>, e |-> -3],
     [k |-> <<"M", "i", "c", "r", "o">>, e |-> -6],
     [k |-> <<"m", "i", "c", "r", "o">>, e |-> -6],
     [k |-> <<"N", "a", "n", "o">>, e |-> -9],
     [k |-> <<"n", "a", "n", "o">>, e |-> -9],
     [k |-> <<"P", "i", "k", "o">>, e |-> -12],
     [k |-> <<"p", "i", "k", "o">>, e |-> -12],
     [k |-> <<"F", "e", "m", "t", "o">>, e |-> -15],
     [k |-> <<"f", "e", "m", "t", "o">>, e |-> -15],
     [k |-> <<"A", "t", "t", "o">>, e |-> -18],
     [k |-> <<"a", "t", "t", "o">>, e |-> -18],
     [k |-> <<"d", "a">>, e |-> 1],
     [k |-> <<"h">>, e |-> 2],
     [k |-> <<"K">>, e |-> 3],
     [k |-> <<"k">>, e |-> 3],
     [k |-> <<"M">>, e |-> 6],
     [k |-> <<"G">>, e |-> 9],
     [k |-> <<"T">>, e |-> 12],
     [k |-> <<"P">>, e |-> 15],
     [k |-> <<"E">>, e |-> 18],
     [k |-> <<"d">>, e |-> -1],
     [k |-> <<"c">>, e |-> -2],
     [k |-> <<"m", "u">>, e |-> -6],
     [k |-> <<"u">>, e |-> -6],
     [k |-> <<"m">>, e |-> -3],
     [k |-> <<"n">>, e |-> -9],
     [k |-> <<"p">>, e |-> -12],
     [k |-> <<"f">>, e |-> -15],
     [k |-> <<"a">>, e |-> -18]>>

\* unit_factors of change_unit: 0.01, 60.0*60.0, 60.0*60.0 and 60.0 as
\* c * 10^e
unit_factors ==
    <<[k |-> <<"%">>, c |-> 1, e |-> 0 - 2],
      [k |-> <<"h", "o", "u", "r">>, c |-> 36, e |-> 2],
      [k |-> <<"h">>, c |-> 36, e |-> 2],
      [k |-> <<"m", "i", "n">>, c |-> 6, e |-> 1]>>

InUnitFactors(unit) == \E i \in 1..Len(unit_factors) : unit_factors[i].k = unit

\* the keys of unit_prefixes that are proper prefixes
PrefixHits(unit) ==
    {i \in 1..Len(unit_prefixes) :
        /\ Len(unit) > Len(unit_prefixes[i].k)
        /\ SubSeq(unit, 1, Len(unit_prefixes[i].k)) = unit_prefixes[i].k}

\* 'for k in unit_prefixes: if ...: f = unit_prefixes[k]': every key that
\* matches assigns the factor, the last one in the order of the dict stays
Factor(unit) ==
    IF InUnitFactors(unit)
    THEN LET i == CHOOSE i \in 1..Len(unit_factors) : unit_factors[i].k = unit
         IN [c |-> unit_factors[i].c, e |-> unit_factors[i].e]
    ELSE LET hits == PrefixHits(unit)
         IN IF hits = {} THEN [c |-> 1, e |-> 0]
            ELSE [c |-> 1,
                  e |-> unit_prefixes[CHOOSE i \in hits :
                                          \A j \in hits : j <= i].e]

\* change_unit(val, old_unit, new_unit)
change_unit(val, old_unit, new_unit) ==
    IF old_unit = <<>> /\ new_unit = <<>> THEN val
    ELSE IF old_unit = <<>> /\ new_unit # <<"%">> THEN val
    ELSE IF new_unit = <<>> /\ old_unit # <<"%">> THEN val
    ELSE LET f1 == Factor(old_unit)
             f2 == Factor(new_unit)
         IN Canon(val.n * f1.c, val.q * f2.c, val.e + f1.e - f2.e)

\* ---------------------------------------------------------------------
\* parse_number applied to the texts of at most MaxChars characters.

MaxChars == 3

NumberAlphabet == {"1", "0", ".", "-", "+", "m", " "}

RECURSIVE TextsOver(_, _)
TextsOver(A, n) ==
    IF n = 0 THEN {<<>>}
    ELSE LET S == TextsOver(A, n - 1)
         IN S \cup {Append(x, c) : x \in {y \in S : Len(y) = n - 1}, c \in A}

NumberTexts ==
    TextsOver(NumberAlphabet, MaxChars) \cup {<<"1", "2", ".", "5", "0", "m", "V">>, <<"-", "1", ".", "5", " ", "m", "V">>}

\* the Logger after __init__: no port, no read_func, the timer not started
Constructed ==
    [Activated EXCEPT !.read_func = None, !.ser = None, !.timer = FALSE,
                      !.msg_label = <<>>]

InitNumber ==
    /\ LoggerStartsAs(Constructed)
    /\ fargs \in {[s |-> x] : x \in NumberTexts}
    /\ fret = Nothing
    /\ par = Nothing

ParseNumber ==
    /\ fret = Nothing
    /\ fret' = parse_number(fargs.s)
    /\ UNCHANGED <<logger_vars, fargs, par>>

NextNumber == ParseNumber

SpecNumber == InitNumber /\ [][NextNumber]_vars

\* the length of the leading run of characters from digits, '.', '+', '-'
\* with at most one '.'
RECURSIVE LeadingRun(_, _)
LeadingRun(s, seen) ==
    IF Len(s) = 0 THEN 0
    ELSE IF Head(s) = "."
    THEN (IF seen THEN 0 ELSE 1 + LeadingRun(Tail(s), TRUE))
    ELSE IF Head(s) \in NumberChars THEN 1 + LeadingRun(Tail(s), seen)
    ELSE 0

\* the characters of a run after its point
AfterPoint(run) ==
    LET points == {i \in 1..Len(run) : run[i] = "."}
    IN IF points = {} THEN 0 ELSE Len(run) - (CHOOSE i \in points : TRUE)

\* C18: for every text parse_number returns a triple: (None, text, 0)
\* exactly when the leading run is empty, otherwise the value of the run
\* (an int if the run has no point, a float otherwise), the trimmed
\* remainder and the number of characters of the run after the point
C18_ReturnsTriple ==
    fret # Nothing =>
        LET s == fargs.s
            k == LeadingRun(s, FALSE)
            run == SubSeq(s, 1, k)
        IN /\ ~fret.raised
           /\ k = 0 => fret.type = None /\ fret.u = s /\ fret.nd = 0
           /\ k > 0 => /\ fret.type =
                              (IF AfterPoint(run) > 0 \/ Last(run) = "."
                               THEN "float" ELSE "int")
                        /\ fret.v = ValueOf(run)
                        /\ fret.u = Strip(SubSeq(s, k + 1, Len(s)))
                        /\ fret.nd = AfterPoint(run)

\* C18 for the texts whose leading run is a numeral
C18_TripleOfNumeral ==
    fret # Nothing /\ ~fret.raised => 
        LET s == fargs.s
            k == LeadingRun(s, FALSE)
            run == SubSeq(s, 1, k)
        IN /\ k = 0 => fret.type = None /\ fret.u = s /\ fret.nd = 0
           /\ k > 0 => /\ fret.type =
                              (IF AfterPoint(run) > 0 \/ Last(run) = "."
                               THEN "float" ELSE "int")
                        /\ fret.v = ValueOf(run)
                        /\ fret.u = Strip(SubSeq(s, k + 1, Len(s)))
                        /\ fret.nd = AfterPoint(run)

\* parse_number("12.50mV") has returned (12.50, "mV", 2)
C18_Example ==
    /\ fargs = [s |-> <<"1", "2", ".", "5", "0", "m", "V">>]
    /\ fret = [raised |-> FALSE, v |-> [n |-> 125, q |-> 1, e |-> 0 - 1],
               type |-> "float", u |-> <<"m", "V">>, nd |-> 2]

\* parse_number("-") has raised a ValueError
C18_Raised ==
    /\ fargs = [s |-> <<"-">>]
    /\ fret # Nothing
    /\ fret.raised

\* ---------------------------------------------------------------------
\* change_unit applied to a value and two units.

Units ==
    {<<"%">>,
     <<"m", "i", "n">>,
     <<"h">>,
     <<"h", "o", "u", "r">>,
     <<"m">>,
     <<"m", "m">>,
     <<"m", "u", "m">>,
     <<"u", "m">>,
     <<"m", "e", "g", "a", "H", "z">>,
     <<"M", "H", "z">>,
     <<"H", "z">>,
     <<"m", "V">>,
     <<"V">>,
     <<"k", "H", "z">>,
     <<"d", "a", "m">>,
     <<"s">>,
     <<"m", "u", "V">>}

\* 1, 5 and 2.5
UnitValues == {Canon(1, 1, 0), Canon(5, 1, 0), Canon(25, 1, 0 - 1)}

InitUnit ==
    /\ LoggerStartsAs(Constructed)
    /\ fargs \in {[val |-> v, old_unit |-> a, new_unit |-> b] :
                     v \in UnitValues, a \in Units \cup {<<>>},
                     b \in Units \cup {<<>>}}
    /\ fret = Nothing
    /\ par = Nothing

ChangeUnit ==
    /\ fret = Nothing
    /\ fret' = change_unit(fargs.val, fargs.old_unit, fargs.new_unit)
    /\ UNCHANGED <<logger_vars, fargs, par>>

NextUnit == ChangeUnit

SpecUnit == InitUnit /\ [][NextUnit]_vars

\* the factor of a unit as stated: that of the exact-match table, else that
\* of the longest key of the SI prefixes that is a proper prefix of the
\* unit, else 1
LongestPrefixFactor(unit) ==
    IF InUnitFactors(unit) THEN Factor(unit)
    ELSE LET hits == PrefixHits(unit)
         IN IF hits = {} THEN [c |-> 1, e |-> 0]
            ELSE [c |-> 1,
                  e |-> unit_prefixes[
                            CHOOSE i \in hits : \A j \in hits :
                                Len(unit_prefixes[j].k)
                                    <= Len(unit_prefixes[i].k)].e]

\* C17: for two units that are given, change_unit returns
\* value * factor(from) / factor(to), the factor of a unit outside the
\* exact-match table being that of its longest SI prefix
C17_LongestPrefix ==
    fret # Nothing /\ fargs.old_unit # <<>> /\ fargs.new_unit # <<>> =>
        LET f1 == LongestPrefixFactor(fargs.old_unit)
            f2 == LongestPrefixFactor(fargs.new_unit)
        IN fret = Canon(fargs.val.n * f1.c, fargs.val.q * f2.c,
                        fargs.val.e + f1.e - f2.e)

\* C17 for the units of which one key only is a proper prefix
C17_OnlyPrefix ==
    /\ fret # Nothing /\ fargs.old_unit # <<>> /\ fargs.new_unit # <<>>
    /\ \A u \in {fargs.old_unit, fargs.new_unit} :
           InUnitFactors(u) \/ Cardinality(PrefixHits(u)) <= 1
    => LET f1 == LongestPrefixFactor(fargs.old_unit)
           f2 == LongestPrefixFactor(fargs.new_unit)
       IN fret = Canon(fargs.val.n * f1.c, fargs.val.q * f2.c,
                       fargs.val.e + f1.e - f2.e)

\* change_unit(1, "mum", "m") has returned 0.001
C17_MicroAsMilli ==
    /\ fargs = [val |-> Canon(1, 1, 0), old_unit |-> <<"m", "u", "m">>,
                new_unit |-> <<"m">>]
    /\ fret = Canon(1, 1, 0 - 3)

\* change_unit(5, "mm", "kHz") has returned 5 * 0.001 / 1000
C17_Scaled ==
    /\ fargs = [val |-> Canon(5, 1, 0), old_unit |-> <<"m", "m">>,
                new_unit |-> <<"k", "H", "z">>]
    /\ fret = Canon(5, 1, 0 - 6)

\* ---------------------------------------------------------------------
\* A Parameter of type float with a unit, shown in a SpinBox.

\* str.replace(a, b) for a character a and a character or '' b
RECURSIVE Replace(_, _, _)
Replace(s, a, b) ==
    IF Len(s) = 0 THEN <<>>
    ELSE (IF Head(s) # a THEN <<Head(s)>>
          ELSE IF b = "" THEN <<>> ELSE <<b>>) \o Replace(Tail(s), a, b)

\* QLocale(): decimal point and group separator
Locales ==
    {[decimalPoint |-> ".", groupSeparator |-> ","],
     [decimalPoint |-> ",", groupSeparator |-> "."]}

\* the digits of a natural number, and its last w digits
RECURSIVE IntChars(_)
IntChars(k) ==
    IF k < 10 THEN <<DigitChar(k)>>
    ELSE Append(IntChars(k \div 10), DigitChar(k % 10))
RECURSIVE FracChars(_, _)
FracChars(k, w) ==
    IF w = 0 THEN <<>>
    ELSE Append(FracChars(k \div 10, w - 1), DigitChar(k % 10))

\* f'{value:.{d}f}': the value rounded to d decimals, ties to even
Format(v, d) ==
    LET up == IF v.e + d > 0 THEN v.e + d ELSE 0
        down == IF v.e + d < 0 THEN 0 - v.e - d ELSE 0
        num == Abs(v.n) * Pow10(up)
        den == v.q * Pow10(down)
        N == num \div den
        r == num % den
        R == IF 2 * r > den THEN N + 1
             ELSE IF 2 * r = den THEN N + (N % 2)
             ELSE N
    IN (IF v.n < 0 THEN <<"-">> ELSE <<>>)
       \o IntChars(R \div Pow10(d))
       \o (IF d > 0 THEN <<".">> \o FracChars(R % Pow10(d), d) ELSE <<>>)

\* SpinBox.__init__
NewSpinBox ==
    [minimum |-> None, maximum |-> None, decimals |-> 0,
     value |-> Canon(0, 1, 0), unit |-> <<>>, text |-> <<>>]

\* SpinBox.setValue(value) for a number
setValue(w, value, locale) ==
    [w EXCEPT !.value = value,
              !.text = Replace(Format(value, w.decimals), ".",
                               locale.decimalPoint) \o w.unit]

\* Parameter.__init__, initialize('float, <unit>[, between a and b]') and
\* setup(): the editor is a SpinBox
NewParameter(value, unit, min_val, max_val, locale) ==
    LET r == parse_number(value)
        cut(x) == IF r.u # <<>> THEN PySlice(x, 0, 0 - Len(r.u)) ELSE x
        w == [NewSpinBox EXCEPT
                !.decimals = r.nd,
                !.minimum = IF min_val = <<>> THEN None
                            ELSE ValueOf(cut(min_val)),
                !.maximum = IF max_val = <<>> THEN Canon(1, 1, 9)
                            ELSE ValueOf(cut(max_val)),
                !.unit = r.u]
    IN [type_str |-> "float", value |-> value, num_value |-> r.v,
        out_unit |-> r.u, unit |-> unit, ndec |-> r.nd,
        min_val |-> min_val, max_val |-> max_val,
        special_val |-> None, special_str |-> None, selection |-> <<>>,
        edit_widget |-> setValue(w, r.v, locale),
        matches |-> FALSE, locale |-> locale, raised |-> FALSE,
        step |-> "setup"]

\* Parameter.verify(text), type_str 'float' and no selection; a ValueError
\* of parse_number or a TypeError of the arithmetic on None leaves
\* matches as the first statement has set it
verify(p, text) ==
    LET p0 == [p EXCEPT !.matches = TRUE, !.raised = FALSE]
        r == parse_number(text)
        s == Replace(Replace(p.edit_widget.text,
                             p.locale.groupSeparator, ""),
                     p.locale.decimalPoint, ".")
        sr == parse_number(s)
    IN IF r.raised \/ sr.raised THEN [p0 EXCEPT !.raised = TRUE]
       ELSE IF r.type = None \/ sr.type = None
       THEN [p0 EXCEPT !.raised = TRUE]
       ELSE LET svalue == IF p.out_unit # <<>>
                          THEN change_unit(sr.v, sr.u, r.u) ELSE sr.v
            IN [p0 EXCEPT !.matches = Close(r.v, svalue)]

\* Parameter.set_value(text), type_str 'float' and no selection
set_value(p, text) ==
    LET r == parse_number(text)
    IN IF r.raised THEN [p EXCEPT !.raised = TRUE]
       ELSE IF r.type = None
       THEN [p EXCEPT !.edit_widget.value = None, !.raised = TRUE]
       ELSE verify([p EXCEPT !.edit_widget =
                                 setValue(@, r.v, p.locale)], text)

\* the texts the device shows for the value; min_val and max_val are ''
\* where the source has None
RawValues ==
    {<<"5", "m", "V">>,
     <<"1", ".", "5", "0", "m", "V">>,
     <<"5", "V">>,
     <<"1", ".", "5", "0", "V">>}
DeviceTexts == {x \o u : x \in {<<"1">>, <<"1", ".", "2">>, <<"1", ".", "2", "3", "4">>, <<"1", "2">>},
                         u \in {<<"m", "V">>, <<"V">>, <<"m", "u", "V">>}}

InitParam ==
    /\ LoggerStartsAs(Constructed)
    /\ fargs \in {[text |-> x] : x \in DeviceTexts}
    /\ fret = Nothing
    /\ par \in {NewParameter(v, <<"V">>,
                             IF b THEN <<"0">> \o parse_number(v).u
                             ELSE <<>>,
                             IF b THEN <<"1", "0">> \o parse_number(v).u
                             ELSE <<>>, l) :
                    v \in RawValues, b \in BOOLEAN, l \in Locales}

SetValue ==
    /\ par.step = "setup"
    /\ par' = [set_value(par, fargs.text) EXCEPT !.step = "set"]
    /\ UNCHANGED <<logger_vars, fargs, fret>>

Verify ==
    /\ par.step = "set"
    /\ par' = [verify(par, fargs.text) EXCEPT !.step = "verified"]
    /\ UNCHANGED <<logger_vars, fargs, fret>>

NextParam == SetValue \/ Verify

SpecParam == InitParam /\ [][NextParam]_vars

\* set_value(text) and then verify(text) have been called
Verified == par # Nothing /\ par.step = "verified"

\* C16: for a Parameter with a unit, set_value(text) followed by
\* verify(text) yields matches = True for every device text
C16_SetThenVerifyMatches ==
    Verified /\ par.out_unit # <<>> => par.matches /\ ~par.raised

\* C16 for the texts in the unit of the Parameter with no more decimals
\* than its precision
C16_MatchesSameUnit ==
    /\ Verified /\ par.out_unit # <<>>
    /\ parse_number(fargs.text).u = par.out_unit
    /\ parse_number(fargs.text).nd <= par.ndec
    => par.matches /\ ~par.raised

\* set_value("1V"), verify("1V") of a Parameter shown in mV: no match
C16_OtherUnit ==
    /\ Verified
    /\ par.out_unit = <<"m", "V">>
    /\ fargs.text = <<"1", "V">>
    /\ ~par.matches

\* set_value("1.234mV"), verify("1.234mV") of a Parameter with two
\* decimals: no match
C16_MoreDecimals ==
    /\ Verified
    /\ par.out_unit = <<"m", "V">> /\ par.ndec = 2
    /\ fargs.text = <<"1", ".", "2", "3", "4", "m", "V">>
    /\ par.edit_widget.text \in {<<"1", ".", "2", "3", "m", "V">>, <<"1", ",", "2", "3", "m", "V">>}
    /\ ~par.matches

\* set_value("12mV"), verify("12mV") of a Parameter between 0mV and 10mV:
\* a match
C16_OutOfBounds ==
    /\ Verified
    /\ par.max_val = <<"1", "0", "m", "V">>
    /\ fargs.text = <<"1", "2", "m", "V">>
    /\ par.matches

\* ---------------------------------------------------------------------
\* Ticks and steps of the scheduler.

\* the state of the machine that owns control: read_func, and read_state
\* where read_func uses it
Stage ==
    <<read_func, IF read_func = "parse_request_stack" THEN 0 ELSE read_state>>

Idle == <<"parse_request_stack", 0>>
SendToken == <<"parse_read_request", 0>>
AwaitStop == <<"parse_read_request", 1>>
Deliver == <<"parse_read_request", 2>>
Unwind == <<"parse_read_request", 3>>
InnerWait == <<"parse_read_request", 4>>
SendStartTokens == <<"parse_write_request", 0>>
SendPayload == <<"parse_write_request", 1>>
UnwindWrite == <<"parse_write_request", 2>>

\* the steps of the machines: Idle dequeues a request and initializes
\* its machine, or stays; the branches of parse_read_request and of
\* parse_write_request
OneStep ==
    {<<Idle, Idle>>, <<Idle, SendToken>>, <<Idle, SendStartTokens>>,
     <<SendToken, InnerWait>>, <<SendToken, AwaitStop>>,
     <<InnerWait, InnerWait>>, <<InnerWait, SendToken>>,
     <<AwaitStop, AwaitStop>>, <<AwaitStop, Deliver>>,
     <<Deliver, Unwind>>, <<Unwind, Idle>>,
     <<SendStartTokens, SendStartTokens>>, <<SendStartTokens, SendPayload>>,
     <<SendPayload, UnwindWrite>>, <<UnwindWrite, Idle>>}

\* 'self.read_func()' at the end of parse_request_stack: the step of Idle
\* that dequeues a request and the first step of the request
Dispatch ==
    {<<Idle, InnerWait>>, <<Idle, AwaitStop>>, <<Idle, SendStartTokens>>}

\* a polling tick that finds bytes waiting
TickFed ==
    timer /\ \E x \in Chunks : Becomes(read(Self, x, "no", <<>>))

\* a polling tick that finds no bytes waiting
TickStepped ==
    /\ timer
    /\ \E answer \in AnswersAt(Self), cb \in CallbackSubsAt(Self, AllSubs) :
           Becomes(read(Self, <<>>, answer, cb))

\* C19 as stated: a tick that finds bytes waiting only appends them to the
\* buffer; any other tick performs exactly one step of the machine that
\* owns control, so that the step of Idle writes nothing
C19_OneStepPerTick ==
    /\ [][TickFed => /\ out' = <<>> /\ calls' = <<>> /\ did' = <<>>
                     /\ Stage' = Stage
                     /\ request_stack' = request_stack]_vars
    /\ [][TickStepped /\ ~raised' =>
              /\ <<Stage, Stage'>> \in OneStep
              /\ Stage = Idle => out' = <<>>]_vars

\* C19: a tick that finds bytes waiting only appends them to the buffer;
\* any other tick calls read_func once: this is one step of the machine
\* that owns control, or it is the step of Idle that dequeues a request
\* together with the first step of that request, which writes the first
\* start token
C19_OneCallPerTick ==
    /\ [][TickFed => /\ out' = <<>> /\ calls' = <<>> /\ did' = <<>>
                     /\ Stage' = Stage
                     /\ request_stack' = request_stack]_vars
    /\ [][TickStepped /\ ~raised' =>
              /\ <<Stage, Stage'>> \in OneStep \cup Dispatch
              /\ Stage = Idle /\ Stage' # Idle =>
                     /\ Len(request_stack') = Len(request_stack) - 1
                     /\ Len(out') = 1
              /\ Stage = Idle /\ Stage' = Idle => out' = <<>>]_vars

\* a tick found a request queued in Idle, dequeued it and wrote its first
\* start token
C19_Witness ==
    /\ Did("dequeue")
    /\ calls = <<>>
    /\ Len(out) = 1
    /\ inflight # {}
    /\ Stage \in {InnerWait, AwaitStop}
    /\ Len(request_stack) > 0

\* ---------------------------------------------------------------------
\* The start tokens of a Read or Transmit request.

\* the start tokens of the request in flight as they were queued
GivenStart == StripStay(request_given.start)

\* the marker InnerWait waits for
InterimMarker ==
    IF request_type = "transmit" /\ Len(request_start) = 1
    THEN "new value" ELSE "select"

\* the latest buffered line contains the marker InnerWait waits for
InterimSeen ==
    Len(input) > 0 /\ Contains(InterimMarker, Lower(Last(input)))

\* C20: a Read or Transmit request writes its start tokens front to back,
\* one per SendToken step, the buffer being empty after the step; in
\* InnerWait it writes nothing and leaves, for SendToken, only when the
\* latest buffered line contains "select" ("new value" for a Transmit with
\* one token left); it is in AwaitStop only after the last token
C20_StartTokensInOrder ==
    /\ [][Stage' \in {InnerWait, AwaitStop} /\ Stage \in {Idle, SendToken} =>
            LET g == StripStay(request_given'.start)
                k == Len(g) - Len(request_start')
            IN /\ k \in 1..Len(g)
               /\ Toks(out') = <<g[k]>>
               /\ input' = <<>>
               /\ Stage = SendToken =>
                      Len(request_start') = Len(request_start) - 1
               /\ Stage = Idle => k = 1
               /\ Stage' = AwaitStop <=> k = Len(g)]_vars
    /\ [][Stage = InnerWait =>
            /\ out' = <<>>
            /\ Stage' \in {InnerWait, SendToken}
            /\ Stage' = SendToken => InterimSeen
            /\ TickStepped /\ InterimSeen => Stage' = SendToken]_vars
    /\ [][Stage' = AwaitStop => Stage \in {Idle, SendToken, AwaitStop}]_vars
    /\ [](Stage = AwaitStop => Len(request_start) = 0)

\* a Transmit with the start tokens 1, 2 waited for "new value", wrote its
\* last token and is in AwaitStop
C20_Witness ==
    /\ Stage = AwaitStop
    /\ request_type = "transmit"
    /\ request_given.start = <<"1", "2">>
    /\ Toks(out) = <<"2">>
    /\ ~Did("dequeue")

\* ---------------------------------------------------------------------
\* The wait of a Read or Transmit request for its stop markers and the
\* run of a Write request, with a device that sends prompts and empty
\* lines.

\* the buffer holds at most MaxBuffer fragments and newlines
MaxBuffer == 3

FragsStop == {"Select", "new value"}
ChunksStop ==
    {<<f>> : f \in FragsStop \cup {NL}} \cup {<<f, NL>> : f \in FragsStop}

ReadSubsStop ==
    [target : {"t1"}, ident : {"bar"}, start : {<<"1">>},
     stop : {<<"select">>, <<"select", "new value">>,
             <<"new value", "select">>},
     act : {"read"}]
TransmitSubsStop ==
    [target : {"t2"}, ident : {"gain"}, start : {<<"2">>},
     stop : {<<"select", "new value">>}, act : {"transmit"}]
WriteSubsStop ==
    [target : {"v"}, ident : {None}, start : {<<"1">>, <<"1", "2">>},
     stop : {<<None>>}, act : {"write"}]

NextStop ==
    \/ TickFeed(ChunksStop, MaxBuffer)
    \/ TickStep({}, MaxSubmit)
    \/ Quiet /\ SubmitRead(ReadSubsStop, MaxSubmit)
    \/ Quiet /\ SubmitTransmit(TransmitSubsStop, MaxSubmit)
    \/ Quiet /\ SubmitWrite(WriteSubsStop, MaxSubmit)

SpecStop == Init /\ [][NextStop]_vars

\* the latest buffered line that is not blank, in lower case; the empty
\* line when every buffered line is blank
RECURSIVE LatestNonBlank(_)
LatestNonBlank(inp) ==
    IF Len(inp) = 0 THEN <<>>
    ELSE IF Blank(Last(inp)) THEN LatestNonBlank(Front(inp))
    ELSE Lower(Last(inp))

\* the fields after the AwaitStop step of a polling tick without bytes
\* waiting
AwaitStopStep == read(Self, <<>>, "no", <<>>)

\* a request with stop markers waits in AwaitStop
AwaitsStop == timer /\ Stage = AwaitStop /\ Len(request_stop) > 0

\* C21 as stated: the AwaitStop step of a request with stop markers
\* examines the latest non-blank buffered line only: it records the
\* largest index of a marker that occurs in this line and goes to
\* Deliver, and it stays in AwaitStop when no marker occurs in it
C21_LatestNonBlankLine ==
    AwaitsStop =>
        LET k == MatchIndex(request_stop, LatestNonBlank(input))
        IN IF k # NoIndex
           THEN /\ AwaitStopStep.read_state = 2
                /\ AwaitStopStep.request_stop_index = k
           ELSE /\ AwaitStopStep.read_state = 1
                /\ AwaitStopStep.request_stop_index = NoIndex

\* the part of C21 that holds: the same for the line the step examines,
\* the last buffered line, or the one before it when the last line is
\* blank and is not the only one
C21_ExaminedLine ==
    AwaitsStop /\ Len(input) > 0 =>
        LET line == IF Blank(Lower(Last(input))) /\ Len(input) > 1
                    THEN Lower(input[Len(input) - 1])
                    ELSE Lower(Last(input))
            found == {k \in 0..(Len(request_stop) - 1) :
                        Contains(request_stop[k + 1], line)}
        IN IF found # {}
           THEN /\ AwaitStopStep.read_state = 2
                /\ AwaitStopStep.request_stop_index \in found
                /\ \A k \in found : k <= AwaitStopStep.request_stop_index
           ELSE /\ AwaitStopStep.read_state = 1
                /\ AwaitStopStep.request_stop_index = NoIndex

\* both markers occurred in the examined line: index 1 is recorded
C21_Witness ==
    /\ Stage = Deliver
    /\ request_given.stop = <<"select", "new value">>
    /\ Contains("select", stop_line)
    /\ Contains("new value", stop_line)
    /\ request_stop_index = 1

\* the marker is followed by two empty lines: the request waits on
C21_TwoBlankLines ==
    /\ Stage = AwaitStop
    /\ Len(input) = 3
    /\ Contains("select", Lower(input[1]))
    /\ Blank(input[2]) /\ Blank(input[3])
    /\ timer
    /\ AwaitStopStep = Self

\* ---------------------------------------------------------------------
\* The yes/no question of the device.

\* the latest buffered line ends with the yes/no prompt suffix while a
\* Read request is in AwaitStop
AskPending ==
    /\ timer
    /\ Stage = AwaitStop
    /\ request_type = "read"
    /\ Len(input) > 0
    /\ EndsWith(Lower(Last(input)), " [y/n] ")

\* the number of confirmation requests raised by a call
NumAsked(d) == Cardinality({i \in 1..Len(d) : d[i] = "ask"})

\* C22: the AwaitStop step of a Read request whose latest line ends with
\* " [y/n] " raises exactly one confirmation request and writes exactly
\* one reply and nothing else, 'y' on accept and 'n' on reject, and the
\* request is in AwaitStop again; no other step raises a confirmation
\* request, in particular none of a Transmit request
C22_ConfirmOnce ==
    /\ [](AskPending =>
            \A answer \in Answers :
                LET s == read(Self, <<>>, answer, <<>>)
                IN /\ NumAsked(s.did) = 1
                   /\ Toks(s.out) = <<IF answer = "yes" THEN "y" ELSE "n">>
                   /\ s.read_func = "parse_read_request"
                   /\ s.read_state = 1
                   /\ s.request_uid = request_uid)
    /\ [][Did("ask")' => AskPending /\ NumAsked(did') = 1
                                    /\ Len(out') = 1]_vars
    /\ [][request_type' = "transmit" => ~Did("ask")']_vars

\* the user rejected the question of a Read request
C22_Witness ==
    /\ Did("ask")
    /\ Toks(out) = <<"n">>
    /\ Stage = AwaitStop
    /\ request_type = "read"
    /\ input = <<>>

\* a Transmit request waits with the yes/no prompt in the latest line
C22_TransmitSeesPrompt ==
    /\ Stage = AwaitStop
    /\ request_type = "transmit"
    /\ Len(input) > 0
    /\ EndsWith(Lower(Last(input)), " [y/n] ")

\* ---------------------------------------------------------------------
\* The end of a Transmit request.

\* C23: a Transmit request records index 1 exactly if the line that ended
\* its wait contains "new value", and index 0 if it contains "select"
\* only; its Deliver step calls the target once, with success = FALSE and
\* one "keepthevalue" written for index 1, with success = TRUE and nothing
\* written for index 0; "keepthevalue" is written by no other step, so it
\* precedes the token of Unwind
C23_TransmitKeepsValue ==
    /\ [](Stage = Deliver /\ request_type = "transmit" =>
            /\ request_stop_index \in {0, 1}
            /\ request_stop_index = 1 <=> Contains("new value", stop_line)
            /\ request_stop_index = 0 =>
                  Contains("select", stop_line))
    /\ [][Stage = Deliver /\ Stage' # Deliver /\ request_type = "transmit" =>
            /\ Stage' = Unwind
            /\ Len(calls') = 1
            /\ calls'[1].target = request_target
            /\ calls'[1].final
            /\ calls'[1].success = (request_stop_index = 0)
            /\ Toks(out') = IF request_stop_index = 1
                            THEN <<"keepthevalue">> ELSE <<>>]_vars
    /\ [][(\E i \in 1..Len(out') : out'[i].tok = "keepthevalue") =>
            /\ Stage = Deliver
            /\ request_type = "transmit"
            /\ request_stop_index = 1]_vars
    /\ [][Stage = Unwind /\ Stage' # Unwind =>
            /\ Stage' = Idle
            /\ Toks(out') = IF request_end THEN <<"h">> ELSE <<>>]_vars

\* a Transmit request that ended at "new value" has written
\* "keepthevalue" and called its target with success = FALSE
C23_Witness ==
    /\ Stage = Unwind
    /\ request_type = "transmit"
    /\ request_stop_index = 1
    /\ Toks(out) = <<"keepthevalue">>
    /\ Len(calls) = 1
    /\ ~calls[1].success

\* a Transmit request that ended at "select" has written nothing in
\* Deliver and called its target with success = TRUE
C23_WitnessSelect ==
    /\ Stage = Unwind
    /\ request_type = "transmit"
    /\ request_stop_index = 0
    /\ out = <<>>
    /\ Len(calls) = 1
    /\ calls[1].success

\* ---------------------------------------------------------------------
\* The run of a Write request.

\* the stage of the machine in the fields s
StageOf(s) ==
    <<s.read_func,
      IF s.read_func = "parse_request_stack" THEN 0 ELSE s.read_state>>

WriteStages == {SendStartTokens, SendPayload, UnwindWrite}

\* the fields after the step of a polling tick without bytes waiting
WriteStep == read(Self, <<>>, "no", <<>>)

\* C24: the call that dequeues a Write request writes its first start
\* token; whatever the buffer holds, every tick in SendStartTokens writes
\* the next start token, or nothing once none is left, then one tick
\* writes the payload, and one tick writes "h" and returns to Idle; while
\* the Write is in flight nothing else is written and no target is called
C24_WriteRuns ==
    /\ [][Stage = Idle /\ Stage' = SendStartTokens =>
            /\ Toks(out') = <<Head(request_given'.start)>>
            /\ request_start' = Tail(request_given'.start)
            /\ request_target' = request_given'.target]_vars
    /\ [](timer /\ Stage = SendStartTokens =>
            IF Len(request_start) > 0
            THEN /\ Toks(WriteStep.out) = <<Head(request_start)>>
                 /\ WriteStep.request_start = Tail(request_start)
                 /\ StageOf(WriteStep) = SendStartTokens
            ELSE /\ WriteStep.out = <<>>
                 /\ StageOf(WriteStep) = SendPayload)
    /\ [](timer /\ Stage = SendPayload =>
            /\ request_target = request_given.target
            /\ Toks(WriteStep.out) = <<request_target>>
            /\ StageOf(WriteStep) = UnwindWrite)
    /\ [](timer /\ Stage = UnwindWrite =>
            /\ Toks(WriteStep.out) = <<"h">>
            /\ StageOf(WriteStep) = Idle
            /\ WriteStep.inflight = {})
    /\ [][(Stage \in WriteStages) =>
            /\ calls' = <<>>
            /\ (out' # <<>> \/ Stage' # Stage
                   \/ request_start' # request_start) =>
                      LoggerBecomes(WriteStep)]_vars

\* a Write request with the start tokens 1, 2 has written both and its
\* payload
C24_Witness ==
    /\ Stage = UnwindWrite
    /\ request_given.start = <<"1", "2">>
    /\ Toks(out) = <<"v">>
    /\ calls = <<>>

\* the second start token is written with unread lines in the buffer
C24_WrittenUnprompted ==
    /\ Stage = SendStartTokens
    /\ request_given.start = <<"1", "2">>
    /\ Len(request_start) = 1
    /\ Len(input) > 0

\* ---------------------------------------------------------------------
\* The partial reads of a running command.

\* a Read request with the identifier "run" and a target waits in
\* AwaitStop
RunWaits ==
    /\ timer
    /\ Stage = AwaitStop
    /\ request_type = "read"
    /\ request_ident = "run"
    /\ request_target # None

\* a call of a target's read that is not the terminal one
IsPartial(c) == ~c.final

\* C25: every AwaitStop step of a Read request "run" with a target that
\* does not end with marker index 0 recorded calls the target once, with
\* the lines buffered at the call and success = FALSE, and a step that
\* records index 0 calls nothing; partial reads are made in AwaitStop
\* only, the terminal call is the single call of the Deliver step, and
\* AwaitStop is not entered again after Deliver
C25_PartialReads ==
    /\ [](RunWaits =>
            \A answer \in Answers :
                LET s == read(Self, <<>>, answer, <<>>)
                IN IF s.request_stop_index = 0
                   THEN s.calls = <<>> /\ StageOf(s) = Deliver
                   ELSE /\ Len(s.calls) = 1
                        /\ IsPartial(s.calls[1])
                        /\ s.calls[1].target = request_target
                        /\ s.calls[1].ident = request_ident
                        /\ s.calls[1].lines = s.input
                        /\ ~s.calls[1].success
                        /\ s.request_uid = request_uid)
    /\ [][(\E i \in 1..Len(calls') : IsPartial(calls'[i])) =>
            /\ Stage = AwaitStop
            /\ request_target # None
            /\ Len(calls') = 1]_vars
    /\ [][(\E i \in 1..Len(calls') : calls'[i].final) =>
            /\ Stage = Deliver
            /\ Stage' = Unwind
            /\ Len(calls') = 1
            /\ request_target' = None]_vars
    /\ [][Stage' = AwaitStop => Stage \in {Idle, SendToken, AwaitStop}]_vars
    /\ [][(Stage \in {Deliver, Unwind}) =>
            Stage' \in {Stage, Unwind, Idle}]_vars

\* a partial read was delivered by the step that recorded marker index 1
C25_Witness ==
    /\ request_ident = "run"
    /\ Stage = Deliver
    /\ request_stop_index = 1
    /\ Len(calls) = 1
    /\ IsPartial(calls[1])
    /\ calls[1].lines = input
    /\ Len(input) > 0

\* a partial read was delivered by a step that found no marker
C25_WitnessWaiting ==
    /\ request_ident = "run"
    /\ Stage = AwaitStop
    /\ Len(request_stop) > 0
    /\ Len(calls) = 1
    /\ IsPartial(calls[1])
    /\ calls[1].lines = input
    /\ Len(input) > 0

\* ---------------------------------------------------------------------
\* The order of the crawl.

\* the position of the crawler in the order AwaitBanner,
\* AwaitConfigNotice, ConfigureEcho, RequestMainMenu, ParseMainMenu,
\* IterateSubmenus, Done; 0 in the halted mode
CrawlRank ==
    CASE read_func = "parse_logo" -> 1
      [] read_func = "parse_configfile" -> 2
      [] read_func = "configure_menu" -> 3
      [] read_func = "parse_mainmenu" /\ read_state = 0 -> 4
      [] read_func = "parse_mainmenu" -> 5
      [] read_func = "parse_submenus" -> 6
      [] read_func = "parse_idle" -> 0
      [] OTHER -> 7

\* the writes of the crawl without the reboot requests of AwaitBanner
Setup(log) == SelectSeq(log, LAMBDA w : w # "reboot")

SetupWrites == <<"detailed on", "echo off", "print">>

\* C26: every step leaves the crawler where it is, takes it to the next
\* state of the order or to the halted mode, from which it does not
\* return; what the crawl writes begins with "detailed on", "echo off"
\* and "print", written in ConfigureEcho and RequestMainMenu, and holds
\* none of them a second time, so that all menu ids come later
C26_CrawlOrder ==
    /\ [][CrawlRank' \in {CrawlRank, CrawlRank + 1, 0}]_vars
    /\ [][CrawlRank = 0 => CrawlRank' = 0]_vars
    /\ [](LET log == Setup(crawl_log)
              n == IF Len(log) < 3 THEN Len(log) ELSE 3
          IN /\ SubSeq(log, 1, n) = SubSeq(SetupWrites, 1, n)
             /\ \A i \in 4..Len(log) :
                    \A j \in 1..3 : log[i] # SetupWrites[j]
             /\ CrawlRank \in {1, 2} => log = <<>>
             /\ CrawlRank = 3 => n = read_state
             /\ CrawlRank = 4 => n = 2
             /\ CrawlRank \in {5, 6, 7} => n = 3)

\* the crawl is done: the three writes are followed by the menu ids
C26_Witness ==
    /\ CrawlRank = 7
    /\ Len(crawl_log) > 4
    /\ SubSeq(crawl_log, 1, 4) = <<"detailed on", "echo off", "print", "1">>

\* ---------------------------------------------------------------------
\* The answer of the crawl to the prompt for a new value.

\* the crawler has written the id of a Parameter entry and waits for
\* the prompt
ParamWaits == timer /\ read_func = "parse_submenus" /\ read_state = 21

\* a line that contains "new value" and ends, blanks apart, in ':' is
\* buffered
PromptBuffered ==
    \E k \in 1..Len(input) :
        /\ Contains("new value", Lower(input[k]))
        /\ Last(RStrip(input[k])) = ":"

\* the fields after the step of a polling tick without bytes waiting
CrawlStep == read(Self, <<>>, "no", <<>>)

\* C27 as stated: the crawler that has written the id of a Parameter
\* entry writes "keepthevalue" in the step that finds the prompt for a
\* new value buffered
C27_AnswersPrompt ==
    ParamWaits /\ PromptBuffered =>
        /\ Toks(CrawlStep.out) = <<"keepthevalue">>
        /\ CrawlStep.read_state = 0

\* the part of C27 that holds: the wait is entered by the write of the id
\* of a Parameter entry; a step of the wait writes nothing or exactly
\* "keepthevalue", the latter only with the prompt buffered, and then
\* the wait is over; no other step of the crawl writes "keepthevalue"
C27_OnlyKeepsTheValue ==
    /\ [][read_func' = "parse_submenus" /\ read_state' = 21
             /\ read_state # 21 =>
            /\ read_state = 20
            /\ EntryAt(menu, menu_item).kind = "param"
            /\ Toks(out') = <<EntryAt(menu, menu_item).num>>
            /\ input' = <<>>]_vars
    /\ [][read_func = "parse_submenus" /\ read_state = 21 =>
            \/ out' = <<>> /\ read_state' = 21
            \/ /\ Toks(out') = <<"keepthevalue">>
               /\ PromptBuffered
               /\ read_state' = 0]_vars
    /\ [][Crawling /\ (\E i \in 1..Len(out') : out'[i].tok = "keepthevalue")
            => read_state = 21]_vars

\* the crawler has answered the prompt of the Parameter Bar
C27_Witness ==
    /\ read_func = "parse_submenus"
    /\ read_state = 0
    /\ menu_key = <<"Bar">>
    /\ Toks(out) = <<"keepthevalue">>

\* the prompt is buffered and the crawler waits on
C27_WaitsAtPrompt ==
    /\ ParamWaits
    /\ PromptBuffered
    /\ wire = <<>> /\ dev.outbox = <<>>
    /\ CrawlStep = Self

\* ---------------------------------------------------------------------
\* The levels of the crawl.

\* the number of levels below the root the crawler is in
Depth == IF Len(menu_iter) = 0 THEN 0 ELSE Len(menu_iter) - 1

\* the crawler is about to take the next entry of the innermost level
AtLevel == timer /\ read_func = "parse_submenus" /\ read_state = 0

\* the iterator of the innermost level is exhausted
Exhausted ==
    /\ Len(menu_iter) > 0
    /\ Last(menu_iter).pos = Len(ItemsAt(menu, Last(menu_iter).path))

\* the ids of Submenu entries written so far: the ids written less those
\* of the Parameter entries, each of which is followed by "keepthevalue"
\* or still waits for its prompt
SubmenuIdsWritten ==
    CountIn(crawl_log, {"1", "2"}) - CountIn(crawl_log, {"keepthevalue"})
    - (IF read_func = "parse_submenus" /\ read_state = 21 THEN 1 ELSE 0)

\* C28: the step that finds the iterator of the innermost level exhausted
\* pops the level from both stacks; it writes "q" if the level was not
\* the root and ends the crawl without a write if it was; "q" is written
\* by no other step, so that the "q" written are the Submenu ids written
\* less the levels not yet left, and at Done their numbers are equal
C28_QuitsPerLevel ==
    /\ [](AtLevel /\ Exhausted =>
            /\ Len(CrawlStep.menu_iter) = Len(menu_iter) - 1
            /\ Len(CrawlStep.menu_ids) = Len(menu_ids) - 1
            /\ IF Len(menu_iter) > 1
               THEN /\ Toks(CrawlStep.out) = <<"q">>
                    /\ CrawlStep.read_func = "parse_submenus"
               ELSE /\ CrawlStep.out = <<>>
                    /\ CrawlStep.read_func = "parse_request_stack")
    /\ [][Crawling /\ (\E i \in 1..Len(out') : out'[i].tok = "q") =>
            /\ AtLevel /\ Exhausted
            /\ Len(menu_iter) > 1
            /\ Len(out') = 1]_vars
    /\ [](CrawlRank \in {6, 7} =>
            CountIn(crawl_log, {"q"}) =
                SubmenuIdsWritten - Depth
                - (IF read_func = "parse_submenus" /\ read_state = 11
                   THEN 1 ELSE 0))
    /\ [](Done =>
            /\ Depth = 0
            /\ CountIn(crawl_log, {"q"}) = SubmenuIdsWritten
            /\ Last(crawl_log) = "init_menu()"
            /\ crawl_log[Len(crawl_log) - 1] # "q")

\* the crawl is done: one Submenu id and one "q" have been written, the
\* "q" when the level of Foo was left
C28_Witness ==
    /\ Done
    /\ SubmenuIdsWritten = 1
    /\ CountIn(crawl_log, {"q"}) = 1
    /\ SubSeq(crawl_log, 4, 7) = <<"1", "1", "keepthevalue", "q">>

\* ---------------------------------------------------------------------
\* The ids of the Parameters: the crawl of trees whose entries carry
\* various ids, from the parsing of the main menu on; the device answers
\* a selection with one of its blocks.

\* main menus with a Submenu Foo and a Parameter Bar
IdMenus ==
    {<<<<"Menu", ":">>,
       <<"1", ")", " ", "Foo", " ", "...">>,
       <<"2", ")", " ", "Bar", ":", " ", "5", " ", "V">>,
       <<"Select", ":", " ">>>>,
     <<<<"Menu", ":">>,
       <<"1", ")", " ", "Bar", ":", " ", "5", " ", "V">>,
       <<"2", ")", " ", "Foo", " ", "...">>,
       <<"Select", ":", " ">>>>,
     <<<<"Menu", ":">>,
       <<"3", ")", " ", "Foo", " ", "...">>,
       <<"Select", ":", " ">>>>}

\* the menu of Foo with the Parameter Baz or the Submenu Qux, the menu of
\* Qux with the Parameter Baz, and the prompts of the Parameters
IdAnswers ==
    {<<"Foo", ":", NL, "1", ")", " ", "Baz", ":", " ", "on", NL,
       "Select", ":", " ">>,
     <<"Foo", ":", NL, "4", ")", " ", "Qux", " ", "...", NL,
       "5", ")", " ", "Baz", ":", " ", "on", NL, "Select", ":", " ">>,
     <<"Qux", ":", NL, "2", ")", " ", "Baz", ":", " ", "on", NL,
       "Select", ":", " ">>,
     BarPrompt, BazPrompt}

InitIds ==
    \E b \in IdMenus :
        StartsAs([Activated EXCEPT
                    !.read_func = "parse_mainmenu",
                    !.read_state = 1,
                    !.input = b,
                    !.crawl_log = <<"detailed on", "echo off", "print">>])

\* the answer of the device to a selection arrives and is read
TickAnswer ==
    /\ timer
    /\ read_func = "parse_submenus"
    /\ read_state \in {11, 21}
    /\ input = <<>>
    /\ \E x \in IdAnswers : Becomes(read(Self, x, "no", <<>>))

\* a polling tick that finds no bytes waiting
TickCrawl ==
    /\ timer
    /\ Crawling
    /\ Becomes(read(Self, <<>>, "no", <<>>))

NextIds == TickAnswer \/ TickCrawl

SpecIds == InitIds /\ [][NextIds]_vars

\* the paths (positions from the root) of the Parameters created so far
RECURSIVE ParamPaths(_)
ParamPaths(items) ==
    UNION {IF items[i].kind = "param" /\ items[i].resolved
           THEN {<<i>>}
           ELSE IF items[i].kind = "menu"
           THEN {<<i>> \o p : p \in ParamPaths(items[i].sub)}
           ELSE {} : i \in 1..Len(items)}

\* the ids of the entries along a path, from the root downward
PathIds(m, path) ==
    [k \in 1..Len(path) |-> EntryAt(m, SubSeq(path, 1, k)).num]

\* C29: the ids of every Parameter created by the crawl are the ids of
\* the Submenu entries above it, from the root downward, followed by its
\* own id; a step of the crawl leaves the ids of the Parameters created
\* before as they are; the id stack is as long as the iterator stack
C29_ParameterIds ==
    /\ [](\A p \in ParamPaths(menu) :
             EntryAt(menu, p).param.ids = PathIds(menu, p))
    /\ [][\A p \in ParamPaths(menu) :
             /\ p \in ParamPaths(menu')
             /\ EntryAt(menu', p).param.ids = EntryAt(menu, p).param.ids]_vars
    /\ [](Len(menu_ids) = Len(menu_iter))

\* the crawl is done and has created the Parameter Baz of the Submenu Qux
\* of the Submenu Foo with the ids 3, 4, 2
C29_Witness ==
    /\ Done
    /\ <<1, 1, 1>> \in ParamPaths(menu)
    /\ EntryAt(menu, <<1, 1, 1>>).param.ids = <<"3", "4", "2">>
    /\ <<1, 2>> \in ParamPaths(menu)
    /\ EntryAt(menu, <<1, 2>>).param.ids = <<"3", "5">>

\* ---------------------------------------------------------------------
\* The wait for the banner: a device that does not answer a write and
\* sends, if anything, single lines.

\* the buffer holds at most MaxNoise fragments and newlines
MaxNoise == 4
\* 'reboot' is written at most MaxReboots times
MaxReboots == 2

NoiseChunks == {<<"noise", NL>>, <<EQ20, NL>>, <<DASH20, NL>>}

\* the fields after a call that has written at most max lines in the
\* crawl
BecomesRebooted(s, max) == Len(s.crawl_log) <= max /\ Becomes(s)

\* a polling tick that finds no bytes waiting (an idle poll)
TickIdle ==
    /\ timer
    /\ Crawling
    /\ BecomesRebooted(read(Self, <<>>, "no", <<>>), MaxReboots)

NextSilent == TickFeed(NoiseChunks, MaxNoise) \/ TickIdle

SpecSilent == StartsAs(Activated) /\ [][NextSilent]_vars

AwaitBanner == read_func = "parse_logo"

\* a title-start line and, after it, a title-end line are buffered
BannerBuffered ==
    \E i, j \in 1..Len(input) :
        /\ i < j
        /\ Len(input[i]) > 0 /\ input[i][1] = EQ20
        /\ Len(input[j]) > 0 /\ input[j][1] = DASH20

\* C30: an idle poll of AwaitBanner without a complete banner (and
\* without HALT) in the buffer leaves the crawler in AwaitBanner; it adds
\* one to the counter and writes nothing while the counter is at most
\* 100, and it writes "reboot" and sets the counter to 0 when the counter
\* is 101: "reboot" is written on every 102nd idle poll, and nothing
\* else is written in AwaitBanner
C30_RebootPeriod ==
    /\ [](AwaitBanner /\ timer /\ ~BannerBuffered /\ FirstHalt(input) = 0 =>
            /\ CrawlStep.read_func = "parse_logo"
            /\ read_count \in 0..101
            /\ IF read_count = 101
               THEN /\ Toks(CrawlStep.out) = <<"reboot">>
                    /\ CrawlStep.read_count = 0
               ELSE /\ CrawlStep.out = <<>>
                    /\ CrawlStep.read_count = read_count + 1)
    /\ [][AwaitBanner /\ out' # <<>> =>
            /\ read_count = 101
            /\ read_count' = 0
            /\ Toks(out') = <<"reboot">>
            /\ AwaitBanner']_vars
    /\ [][AwaitBanner /\ read_count' # read_count =>
            \/ read_count' = read_count + 1 /\ out' = <<>>
            \/ read_count' = 0 /\ Toks(out') = <<"reboot">>]_vars
    /\ [](AwaitBanner =>
            \A i \in 1..Len(crawl_log) : crawl_log[i] = "reboot")

\* the second "reboot" has been written by the 204th idle poll, with a
\* title-end line but no title-start line before it in the buffer
C30_Witness ==
    /\ AwaitBanner
    /\ crawl_log = <<"reboot", "reboot">>
    /\ Toks(out) = <<"reboot">>
    /\ read_count = 0
    /\ Len(input) > 1
    /\ input[1] = <<DASH20>>

\* ---------------------------------------------------------------------
\* The halt message: the crawler waits for the banner and the device
\* sends its last words, blanks, empty lines and HALT.

HaltChunks ==
    {<<f>> : f \in {"fatal", " ", "HALT", NL}}
    \cup {<<f, NL>> : f \in {"fatal", " ", "HALT"}}

\* a polling tick of the crawl that finds no bytes waiting
TickHalts ==
    /\ timer
    /\ Crawling
    /\ BecomesPolled(read(Self, <<>>, "no", <<>>), MaxSubmit, MaxPolls)

NextHalt == TickFeed(HaltChunks, MaxBuffer) \/ TickHalts

SpecHalt == StartsAs(Activated) /\ [][NextHalt]_vars

\* the nearest line below position k (from 1) that is not blank; the
\* empty line if there is none
RECURSIVE NearestNonBlankBelow(_, _)
NearestNonBlankBelow(inp, k) ==
    IF k <= 1 THEN <<>>
    ELSE IF Blank(inp[k - 1]) THEN NearestNonBlankBelow(inp, k - 1)
    ELSE inp[k - 1]

\* the crawler waits for the banner and HALT is buffered
HaltSeen == timer /\ AwaitBanner /\ FirstHalt(input) > 0

\* C31 as stated: the step that detects HALT surfaces "Logger halted"
\* with the nearest non-blank line below the line with HALT, whatever
\* the buffer holds
C31_HaltMessage ==
    HaltSeen =>
        /\ CrawlStep.read_func = "parse_idle"
        /\ CrawlStep.msg_label =
               <<"Logger halted", NL>>
               \o NearestNonBlankBelow(input, FirstHalt(input))

\* the part of C31 that holds: the same when the nearest line below the
\* line with HALT that is not empty exists and is not blank
C31_MessageAfterText ==
    HaltSeen =>
        /\ CrawlStep.read_func = "parse_idle"
        /\ \A j \in 1..(FirstHalt(input) - 1) :
              /\ ~Blank(input[j])
              /\ \A i \in (j + 1)..(FirstHalt(input) - 1) : input[i] = <<>>
              => CrawlStep.msg_label = <<"Logger halted", NL>> \o input[j]

\* the last words of the device are surfaced
C31_Witness ==
    /\ Halted
    /\ Did("halt")
    /\ Len(input) = 2
    /\ input[1] = <<"fatal">> /\ input[2] = <<"HALT">>
    /\ msg_label = <<"Logger halted", NL, "fatal">>

\* HALT came on the first buffered line: the message is the last
\* buffered line
C31_HaltFirst ==
    /\ Halted
    /\ Did("halt")
    /\ Len(input) > 1
    /\ input[1] = <<"HALT">>
    /\ msg_label = <<"Logger halted", NL>> \o Last(input)

\* ---------------------------------------------------------------------
\* The entry Help: the crawl of main menus with a top-level entry Help
\* of each kind, which carries the id 9.

HelpLines ==
    {<<"9", ")", " ", "Help", " ", "...">>,
     <<"9", ")", " ", "Help", ":", " ", "on">>,
     <<"9", ")", " ", "Help">>}

HelpMenus ==
    {<<<<"Menu", ":">>, h,
       <<"2", ")", " ", "Bar", ":", " ", "5", " ", "V">>,
       <<"Select", ":", " ">>>> : h \in HelpLines}
    \cup {<<<<"Menu", ":">>,
            <<"2", ")", " ", "Bar", ":", " ", "5", " ", "V">>, h,
            <<"Select", ":", " ">>>> : h \in HelpLines}

\* the menu of Help, the prompt of the Parameter in it, the prompt of a
\* Parameter Help and that of Bar
HelpAnswers ==
    {<<"Help", ":", NL, "1", ")", " ", "Baz", ":", " ", "on", NL,
       "Select", ":", " ">>,
     <<"Help", ":", " ", "on", NL,
       "new value", " ", "(", "enum", ")", ":", " ">>,
     BazPrompt, BarPrompt}

InitHelp ==
    \E b \in HelpMenus :
        StartsAs([Activated EXCEPT
                    !.read_func = "parse_mainmenu",
                    !.read_state = 1,
                    !.input = b,
                    !.crawl_log = <<"detailed on", "echo off", "print">>])

\* the answer of the device to a selection arrives and is read
TickHelpAnswer ==
    /\ timer
    /\ read_func = "parse_submenus"
    /\ read_state \in {11, 21}
    /\ input = <<>>
    /\ \E x \in HelpAnswers : Becomes(read(Self, x, "no", <<>>))

NextHelp == TickHelpAnswer \/ TickCrawl

SpecHelp == InitHelp /\ [][NextHelp]_vars

\* the tree has a top-level entry Help
HasHelp(m) == \E i \in 1..Len(m) : m[i].name = <<"Help">>

\* the crawler has taken the top-level entry Help
AtHelp ==
    /\ timer
    /\ read_func = "parse_submenus"
    /\ Len(menu_iter) = 1
    /\ menu_key = <<"Help">>

\* C32 as stated: the id of a top-level entry Help is never written, and
\* the tree the crawl hands over does not contain the entry
C32_HelpNeverSelected ==
    /\ \A i \in 1..Len(crawl_log) : crawl_log[i] # "9"
    /\ Done => ~HasHelp(menu)

\* C32: a top-level entry Help stays in the tree while the crawl runs
\* and is taken like any other entry: the crawler writes its id if it is
\* a Submenu or a Parameter and passes it by if it is an Action; the
\* step that ends the crawl removes it, so that the tree handed over
\* does not contain it
C32_HelpRemovedAtDone ==
    /\ [](Done => ~HasHelp(menu))
    /\ [](AtHelp /\ read_state \in {10, 20} =>
            /\ EntryAt(menu, menu_item).kind \in {"menu", "param"}
            /\ Toks(CrawlStep.out) = <<"9">>)
    /\ [](AtHelp /\ read_state = 0 =>
            EntryAt(menu, menu_item).kind \in {"action", "param"})
    /\ [][HasHelp(menu) /\ ~HasHelp(menu') =>
            /\ AtLevel /\ Exhausted /\ Len(menu_iter) = 1
            /\ Did("init_menu")'
            /\ Done']_vars
    /\ [][(CrawlRank = 6) /\ CrawlRank' = 6 =>
            (HasHelp(menu) <=> HasHelp(menu'))]_vars

\* the crawl is done: the Submenu Help was entered and left and is not
\* in the tree
C32_Witness ==
    /\ Done
    /\ ~HasHelp(menu)
    /\ Len(menu) = 1
    /\ crawl_log = <<"detailed on", "echo off", "print", "9", "1",
                     "keepthevalue", "q", "2", "keepthevalue",
                     "init_menu()">>

\* ---------------------------------------------------------------------
\* Lines of a menu block that are no entries: the main menu is parsed
\* from blocks with empty lines, lines of blanks and lines of one word
\* between the entries.

\* a block holds at most MaxInterior lines between header and footer
MaxInterior == 3

GrammarLines ==
    {<<"1", ")", " ", "Foo", " ", "...">>,
     <<"2", ")", " ", "Bar", ":", " ", "5", " ", "V">>}
OddLines == {<<>>, <<" ">>, <<"word">>}

GrammarBlocks ==
    {<<<<"Menu", ":">>>> \o ls \o <<<<"Select", ":">>>> :
        ls \in UNION {[1..n -> GrammarLines \cup OddLines] :
                         n \in 0..MaxInterior}}

InitGrammar ==
    \E b \in GrammarBlocks :
        StartsAs([Activated EXCEPT
                    !.read_func = "parse_mainmenu",
                    !.read_state = 1,
                    !.input = b,
                    !.crawl_log = <<"detailed on", "echo off", "print">>])

SpecGrammar == InitGrammar /\ [][ParseMainMenu]_vars

\* the line has the shape "NN) Name ..."
IsEntryLine(l) ==
    /\ Len(Words(l)) >= 2
    /\ Last(Words(l)[1]) = ")"

\* the lines of a block that have the shape of an entry
EntryLines(inp) == SelectSeq(Interior(inp), IsEntryLine)

\* a block is buffered and about to be parsed
BlockBuffered ==
    /\ timer
    /\ read_func = "parse_mainmenu"
    /\ read_state = 1
    /\ Len(input) >= 2

\* C33 as stated: the lines between header and footer that are no entry
\* lines add nothing to the parsed menu and raise no error, and the
\* entry lines are parsed as usual
C33_OddLinesSkipped ==
    BlockBuffered =>
        /\ ~CrawlStep.raised
        /\ Len(CrawlStep.menu) = Len(DictUpdate(<<>>,
               [k \in 1..Len(EntryLines(input)) |->
                   ParseEntry(EntryLines(input)[k]).e]))
        /\ \A k \in 1..Len(CrawlStep.menu) :
               \E j \in 1..Len(EntryLines(input)) :
                   Shown(CrawlStep.menu[k]) = ByWords(EntryLines(input)[j])

\* the part of C33 that holds: a block of entry lines only is parsed
\* without an error into one entry per name
C33_EntryLinesParsed ==
    BlockBuffered /\ EntryLines(input) = Interior(input) =>
        /\ ~CrawlStep.raised
        /\ \A k \in 1..Len(CrawlStep.menu) :
               \E j \in 1..Len(EntryLines(input)) :
                   Shown(CrawlStep.menu[k]) = ByWords(EntryLines(input)[j])
        /\ \A j \in 1..Len(EntryLines(input)) :
               \E k \in 1..Len(CrawlStep.menu) :
                   CrawlStep.menu[k].name = ByWords(EntryLines(input)[j]).name

\* an empty line stands between two entries: the step raises an error
\* and leaves the block in the buffer
C33_EmptyLineRaises ==
    /\ raised
    /\ read_func = "parse_mainmenu"
    /\ Len(input) = 5
    /\ input[3] = <<>>
    /\ IsEntryLine(input[2]) /\ IsEntryLine(input[4])
    /\ menu = <<>>

\* a line of one word has become an Action without a name
C33_WordBecomesAction ==
    /\ read_func = "parse_submenus"
    /\ \E k \in 1..Len(menu) : menu[k].name = <<>> /\ menu[k].kind = "action"

\* a block of two entry lines has been parsed
C33_Witness ==
    /\ read_func = "parse_submenus"
    /\ ~raised
    /\ Len(menu) = 2
    /\ menu[1].name = <<"Bar">> /\ menu[2].name = <<"Foo">>

\* ---------------------------------------------------------------------
\* Feeding and the cuts of the byte stream: the transport delivers a
\* stream in chunks, one to a tick; fargs keeps the stream delivered so
\* far and fret the number of chunks.

\* a stream holds at most MaxStream bytes, a chunk at most MaxChunk
MaxStream == 5
MaxChunk == 2

StreamBytes == {"a", CR, NL}
StreamChunks == UNION {[1..n -> StreamBytes] : n \in 1..MaxChunk}

InitStream ==
    /\ LoggerStartsAs(Activated)
    /\ fargs = <<>>
    /\ fret = 0
    /\ par = Nothing

\* a polling tick that finds the chunk x waiting
TickChunk ==
    /\ timer
    /\ \E x \in StreamChunks :
         /\ Len(fargs) + Len(x) <= MaxStream
         /\ LoggerBecomes(read(Self, x, "no", <<>>))
         /\ fargs' = fargs \o x
         /\ fret' = fret + 1
         /\ UNCHANGED par

SpecStream == InitStream /\ [][TickChunk]_vars

\* the buffer after one tick has found the whole stream waiting
FedAtOnce(stream) == read(Activated, stream, "no", <<>>).input

\* every carriage return of the stream is followed by carriage returns
\* only up to the next newline or the end of the stream
ReturnsEndLines(stream) ==
    \A i \in 1..Len(stream) :
        stream[i] = CR =>
            \/ i = Len(stream)
            \/ stream[i + 1] \in {CR, NL}

\* C34 as stated: whatever the cuts, the buffered lines are those of the
\* stream fed at once
C34_CutsDoNotMatter ==
    Len(fargs) > 0 => input = FedAtOnce(fargs)

\* the part of C34 that holds: the cuts do not matter for a stream whose
\* carriage returns stand at the ends of its lines
C34_CutsOfEndedLines ==
    Len(fargs) > 0 /\ ReturnsEndLines(fargs) => input = FedAtOnce(fargs)

\* a line has been cut: its first byte came with one chunk, the rest
\* and the newline with the next
C34_Witness ==
    /\ fret = 2
    /\ fargs = <<"a", "a", CR, NL>>
    /\ input = <<<<"a", "a">>, <<>>>>

\* a chunk ended in a carriage return and the line went on: the
\* carriage return is lost from the middle of the line
C34_ReturnLostAtCut ==
    /\ fret = 2
    /\ fargs = <<"a", CR, "a">>
    /\ input = <<<<"a", "a">>>>
    /\ FedAtOnce(fargs) = <<<<"a", CR, "a">>>>

\* ---------------------------------------------------------------------
\* The sticky block: consumers submit requests with and without the
\* sentinel at any time, also from a read callback, and the device
\* prompts.

ChunksSticky == {<<"Select">>, <<"Select", NL>>}

ReadSubsSticky ==
    [target : {"t1"}, ident : {"bar"},
     start : {<<>>, <<"1">>, <<"1", "STAY">>},
     stop : {<<"select">>}, act : {"read"}]
    \cup [target : {None}, ident : {"baz"}, start : {<<"2">>},
          stop : {<<"select">>}, act : {"read"}]
TransmitSubsSticky ==
    [target : {"t2"}, ident : {"gain"}, start : {<<>>, <<"2", "STAY">>},
     stop : {<<"select", "new value">>}, act : {"transmit"}]
WriteSubsSticky ==
    [target : {"v"}, ident : {None}, start : {<<>>, <<"1">>},
     stop : {<<None>>}, act : {"write"}]
SubsSticky == ReadSubsSticky \cup TransmitSubsSticky \cup WriteSubsSticky

NextSticky ==
    \/ TickFeed(ChunksSticky, MaxInput)
    \/ TickStep(WriteSubsSticky \cup TransmitSubsSticky, MaxSubmit)
    \/ SubmitRead(ReadSubsSticky, MaxSubmit)
    \/ SubmitTransmit(TransmitSubsSticky, MaxSubmit)
    \/ SubmitWrite(WriteSubsSticky, MaxSubmit)

SpecSticky == Init /\ [][NextSticky]_vars

\* c is a submission with start tokens and without the sentinel
Droppable(c) == Len(c.start) > 0 /\ ~HasStay(c)

\* C35 as stated: a submission without the sentinel made while the block
\* flag is set leaves the queue unchanged
C35_QueueUnchanged ==
    [][\A c \in SubsSticky :
          (request_block /\ Droppable(c) /\ Submitted(c))
             => request_stack' = request_stack]_vars

\* C35 amended: a submission without the sentinel made while the block
\* flag is set is not stored: no request is added to the queue and none
\* is accepted; the queue is unchanged and nothing is written unless the
\* scheduler is Idle with requests queued, none of them with the key of
\* a read or transmit submitted, in which case the call dequeues the
\* oldest of them and runs its first step
C35_BlockedNotStored ==
    [][\A c \in SubsSticky :
          (request_block /\ Droppable(c) /\ Submitted(c))
             => /\ nsub' = nsub
                /\ IF /\ IsIdle(Self)
                      /\ Len(request_stack) > 0
                      /\ (c.act = "write" \/ ~HasKey(request_stack, c))
                   THEN /\ request_stack' = Tail(request_stack)
                        /\ request_uid' = Head(request_stack).uid
                        /\ request_given' = Head(request_stack).given
                   ELSE /\ request_stack' = request_stack
                        /\ out' = <<>>
                        /\ request_uid' = request_uid
                        /\ request_type' = request_type]_vars

\* a submission was dropped while a request submitted with the sentinel
\* is active
C35_Witness ==
    /\ did = <<"blocked">>
    /\ request_block
    /\ request_type # None
    /\ Len(request_stack) = 0

\* a submission was dropped by a call that took a queued request from
\* the queue
C35_DroppedAndDequeued ==
    /\ did = <<"blocked", "dequeue">>
    /\ request_block

\* the submissions with the sentinel
StaySubs == {c \in SubsSticky : HasStay(c)}

\* the step is a polling tick in which a read callback submits c
CallbackSubmitted(c) ==
    /\ read_func = "parse_read_request"
    /\ \E answer \in Answers : Becomes(read(Self, <<>>, answer, <<c>>))
    /\ Len(calls') > 0

\* the step is a polling tick that finds no bytes waiting and submits
\* nothing
PlainTick == Becomes(read(Self, <<>>, "no", <<>>))

\* the scheduler is Idle with the queue empty and no request active
IdleAndEmpty ==
    IsIdle(Self) /\ request_type = None /\ Len(request_stack) = 0

\* the block flag is set by the step, or released by it
BlockRises == ~request_block /\ request_block'
BlockFalls == request_block /\ ~request_block'

C36_ReleasedBySubmission ==
    /\ ~request_block
    /\ did = <<"blocked">>
    /\ read_func = "parse_request_stack"

\* the request that ran last was submitted with the sentinel and has
\* completed: its last step has written no 'h', and the Idle steps since
\* then have written nothing
StickyCompleted ==
    /\ IsIdle(Self)
    /\ request_type = None
    /\ request_uid # 0
    /\ ~request_end

\* C37 as stated: after a request submitted with the sentinel has
\* completed, a request submitted without it has its first start token
\* written only after an 'h' was written; nothing is written between the
\* last step of a request and the step that dequeues the next one, so
\* the request dequeued next was submitted with the sentinel
C37_RootBeforeStart ==
    [][(StickyCompleted /\ Did("dequeue")' /\ Len(out') > 0)
          => HasStay(request_given')]_vars

\* the part of C37 that holds: as long as the block flag has not been
\* released, the request dequeued after one submitted with the sentinel
\* was submitted with the sentinel as well
C37_StickyFollowsWhileBlocked ==
    [][(StickyCompleted /\ request_block /\ Did("dequeue")')
          => HasStay(request_given')]_vars

\* the request submitted with the sentinel has completed and an Idle
\* step has released the block flag: the requests submitted from now on
\* are accepted
C37_ReleasedAfterSticky ==
    /\ StickyCompleted
    /\ ~request_block
    /\ Len(request_stack) = 0

\* the step has accepted a request: it was stored with the next number
Accepted == nsub' = nsub + 1

\* the scheduler owns control
SchedulerOwns == read_func = "parse_request_stack"

\* the state machine of the active request is where it was
MachineUnchanged ==
    /\ read_func' = read_func
    /\ read_state' = read_state
    /\ request_type' = request_type
    /\ request_uid' = request_uid
    /\ request_start' = request_start

\* the step has dequeued the request with the number uid and the start
\* tokens start and has written the first of them, and nothing else
StartedInCall(uid, start) ==
    /\ Did("dequeue")'
    /\ request_uid' = uid
    /\ read_func' \in {"parse_read_request", "parse_write_request"}
    /\ Len(out') = 1
    /\ out'[1].tok = Head(start)
    /\ out'[1].uid = uid

\* C38 as stated: a submission accepted while the scheduler is Idle is
\* dequeued and has its first start token written in the call; one
\* accepted while a request is active, also from a read callback, writes
\* nothing and only changes the queue
C38_StartsInCall ==
    [][\A c \in SubsSticky :
          /\ (Submitted(c) /\ Accepted /\ SchedulerOwns)
                => StartedInCall(nsub + 1, StripStay(c.start))
          /\ (Submitted(c) /\ Accepted /\ ~SchedulerOwns)
                => /\ out' = <<>>
                   /\ Front(request_stack') = request_stack
                   /\ MachineUnchanged
          /\ (CallbackSubmitted(c) /\ Accepted)
                => /\ Front(request_stack') = request_stack
                   /\ request_uid' = request_uid
                   /\ \A i \in 1..Len(out') : out'[i].uid = request_uid]_vars

\* C38 amended: the call of a submission accepted while the scheduler is
\* Idle dequeues the oldest request of the queue, which is the submitted
\* one only if the queue was empty, and writes its first start token;
\* the submitted request waits in the queue otherwise
C38_OldestStartsInCall ==
    [][\A c \in SubsSticky :
          /\ (Submitted(c) /\ Accepted /\ SchedulerOwns)
                => IF Len(request_stack) = 0
                   THEN /\ StartedInCall(nsub + 1, StripStay(c.start))
                        /\ request_stack' = <<>>
                   ELSE /\ StartedInCall(Head(request_stack).uid,
                                         Head(request_stack).start)
                        /\ Len(request_stack') = Len(request_stack)
                        /\ Last(request_stack').given = c
                        /\ Front(request_stack') = Tail(request_stack)
          /\ (Submitted(c) /\ Accepted /\ ~SchedulerOwns)
                => /\ out' = <<>>
                   /\ Front(request_stack') = request_stack
                   /\ Last(request_stack').given = c
                   /\ MachineUnchanged
          /\ (CallbackSubmitted(c) /\ Accepted)
                => /\ Front(request_stack') = request_stack
                   /\ Last(request_stack').given = c
                   /\ request_uid' = request_uid
                   /\ \A i \in 1..Len(out') : out'[i].uid = request_uid]_vars

\* a request was submitted to the Idle scheduler with an empty queue and
\* has written its first start token in the call
C38_Witness ==
    /\ did = <<"queued", "dequeue">>
    /\ request_uid = nsub
    /\ Len(request_stack) = 0
    /\ Len(out) = 1 /\ out[1].uid = nsub

\* a request was submitted to the Idle scheduler behind a queued request:
\* the call has started the older one
C38_OlderStarted ==
    /\ did = <<"queued", "dequeue">>
    /\ request_uid < nsub
    /\ Len(request_stack) > 0
    /\ Last(request_stack).uid = nsub
    /\ Len(out) = 1 /\ out[1].uid = request_uid

\* a read callback has submitted a request, which is queued
C38_QueuedFromCallback ==
    /\ Len(calls) > 0
    /\ Did("queued")
    /\ Len(request_stack) > 0
    /\ Last(request_stack).uid = nsub

\* the calls of a target's read made by the step that tell the end of a
\* request
FinalCalls(cs) == SelectSeq(cs, LAMBDA call : call.final)

\* the step is the Deliver step of the active read or transmit request
DeliverStep ==
    /\ read_func = "parse_read_request"
    /\ read_state = 2
    /\ Did("deliver")'

\* C39: the Deliver step of a read or transmit request with a target
\* calls the target's read once, with the identifier of the request, and
\* clears the target; no other step makes such a call, so that it is made
\* once for a request; a step of a write request calls no target, and a
\* call is made only by a step of the request that is active
C39_DeliveredOnce ==
    [][/\ (DeliverStep /\ request_target # None)
             => /\ Len(calls') = 1
                /\ calls'[1].final
                /\ calls'[1].target = request_target
                /\ calls'[1].ident = request_ident
                /\ calls'[1].uid = request_uid
                /\ request_target' = None
                /\ read_state' = 3
       /\ (DeliverStep /\ request_target = None) => calls' = <<>>
       /\ (FinalCalls(calls') # <<>>) => DeliverStep
       /\ (request_type = "write" \/ request_type' = "write")
             => calls' = <<>>
       /\ (calls' # <<>>)
             => /\ read_func = "parse_read_request"
                /\ request_type \in {"read", "transmit"}
                /\ \A i \in 1..Len(calls') : calls'[i].uid = request_uid
       /\ (read_func = "parse_read_request" /\ read_state = 3)
             => request_target = None]_vars

\* the Deliver step of a read request has called its target
C39_Witness ==
    /\ did = <<"deliver">>
    /\ read_state = 3
    /\ request_type = "read"
    /\ Len(calls) = 1 /\ calls[1].final /\ calls[1].target = "t1"
    /\ request_target = None

\* the Deliver step of a request without a target has called nothing
C39_WitnessNoTarget ==
    /\ did = <<"deliver">>
    /\ request_given.target = None
    /\ calls = <<>>

\* the submissions without start tokens
EmptySubs == {c \in SubsSticky : Len(c.start) = 0}

\* the fields after the submission of c
SubmitStep(c) ==
    IF c.act = "write"
    THEN write_request(Self, c.target, c.start)
    ELSE read_request(Self, c.target, c.ident, c.start, c.stop, c.act)

\* C40: a submission without start tokens changes neither the queue nor
\* the block flag nor the state machine of the active request nor the
\* buffer and writes nothing, in every state of the scheduler; the
\* payload of a write request that is written belongs to a request
\* submitted with start tokens
C40_EmptyStartIgnored ==
    /\ \A c \in EmptySubs :
          /\ SubmitStep(c).request_stack = request_stack
          /\ SubmitStep(c).request_block = request_block
          /\ SubmitStep(c).read_func = read_func
          /\ SubmitStep(c).read_state = read_state
          /\ SubmitStep(c).request_type = request_type
          /\ SubmitStep(c).request_uid = request_uid
          /\ SubmitStep(c).request_start = request_start
          /\ SubmitStep(c).request_target = request_target
          /\ SubmitStep(c).input = input
          /\ SubmitStep(c).nsub = nsub
          /\ SubmitStep(c).out = <<>>
          /\ SubmitStep(c).calls = <<>>
    /\ \A i \in 1..Len(out) :
          out[i].tok = "v" => Len(request_given.start) > 0

\* a write request without start tokens was submitted to the Idle
\* scheduler while the block flag is set: the flag is still set and
\* nothing was written
C40_Witness ==
    /\ did = <<"empty">>
    /\ read_func = "parse_request_stack"
    /\ request_block
    /\ out = <<>>

\* a read request without start tokens was submitted while a request is
\* active
C40_WitnessActive ==
    /\ did = <<"empty">>
    /\ request_type # None
    /\ Len(request_stack) = 0
====
